---- MODULE Spec2Model ----
(***************************************************************************)
(* StreamFlow: the streaming data plane.                                   *)
(*                                                                         *)
(*   message fabric   streamflow/shared/messaging.py                       *)
(*   stream processor streamflow/services/analytics/main.py                *)
(*   alert engine     streamflow/services/alerting/main.py                 *)
(*                                                                         *)
(* Time is counted in whole minutes: datetime.utcnow() is the variable     *)
(* now, a 60 second window has size 1, suppression_minutes and             *)
(* escalation_minutes are used as they are.                                *)
(***************************************************************************)
EXTENDS Integers, Sequences, FiniteSets, TLC

\* ------------------------------------------------------------------ bounds
MaxTime == 2           \* the clock runs from 0 to MaxTime
MaxEvents == 3         \* events handed to the windows / the processor
MaxPublished == 3      \* messages published in the routing specification
MaxCalls == 2          \* process_event calls in the processor specification
MaxEngineCalls == 3    \* calls that start the alert engine, hand it a message or act on an alert

\* ------------------------------------------------------- program constants
Size1min == 1          \* register_window("1min", 60)
Size5min == 5          \* register_window("5min", 300)
Size1hour == 60        \* register_window("1hour", 3600)

VARIABLES
    now,         \* datetime.utcnow(), in minutes
    nextId,      \* the next fresh id (uuid4) for an event, message or alert
    windows,     \* StreamProcessor.windows: name -> TimeWindow
    observed,    \* the last observation of a window: what count()/get_events() saw
    declared,    \* MessageBroker.queues: the names of the declared queues
    bindings,    \* the queue bindings held by the exchanges
    queues,      \* the messages waiting in each queue
    published,   \* log of the publishes: the message and the queues that got it
    rules,       \* StreamProcessor.rules, in registration order
    metrics,     \* StreamProcessor.metrics: the counters
    proc,        \* the process_event calls: event id -> its position and log
    alert_rules,     \* AlertEngine.rules: rule id -> AlertRule
    alerts,          \* every Alert object created: alert id -> Alert
    active_alerts,   \* AlertEngine.active_alerts: the ids it holds
    alert_states,    \* AlertEngine.alert_states: alert id -> AlertState
    is_running,      \* AlertEngine.is_running
    tasks,           \* the engine's suspended coroutines
    notifications,   \* log of the sends: what each channel was handed
    handled,         \* log of the payloads _process_direct_alert was called with
    calls,           \* calls made to the alert engine so far
    is_connected,    \* MessageBroker.is_connected
    deliveries,      \* the messages handed to consume handlers, and how each was settled
    dead_letters,    \* the messages in the dead-letter queue <queue>.dlq of each queue
    events_table,    \* the rows of the events table, in insertion order
    accepted,        \* the events the ingestion edge has accepted
    responses,       \* log of the store_event calls and what each returned
    pages,           \* log of the query_events calls and what each returned
    sweep,           \* the cleanup_old_data call: its position and what it deleted
    bg_tasks,        \* ingestion: the background tasks added and not yet run
    websocket,       \* ingestion: one WebSocket channel, its frames and replies
    alert_rows,      \* the rows of the alerts table
    analytics_is_running,  \* AnalyticsService.is_running
    active_connections     \* ingestion: ConnectionManager.active_connections of each service

winVars == <<windows, observed>>
brokerVars == <<declared, bindings, queues, published>>
procVars == <<rules, metrics, proc>>
alertVars ==
    <<alert_rules, alerts, active_alerts, alert_states, is_running, tasks,
      notifications, handled, calls>>
fabricVars == <<is_connected, deliveries, dead_letters>>
storageVars == <<events_table, accepted, responses, pages, sweep>>
serviceVars ==
    <<bg_tasks, websocket, alert_rows, analytics_is_running, active_connections>>
vars ==
    <<now, nextId, winVars, brokerVars, procVars, alertVars, fabricVars, storageVars,
      serviceVars>>

\* ------------------------------------------------------------------ events
\* EventType (shared/models.py): the value of each member
EventTypes ==
    {"web.click", "web.pageview", "api.request", "api.response",
     "user.login", "user.logout", "error", "metric", "custom"}

\* the words of a dotted string, as str.split(".") gives them; the broker
\* matches routing keys word by word
Words(s) ==
    CASE s = "web.click" -> <<"web", "click">>
      [] s = "web.pageview" -> <<"web", "pageview">>
      [] s = "api.request" -> <<"api", "request">>
      [] s = "api.response" -> <<"api", "response">>
      [] s = "user.login" -> <<"user", "login">>
      [] s = "user.logout" -> <<"user", "logout">>
      [] s = "events.*" -> <<"events", "*">>
      [] s = "events.#" -> <<"events", "#">>
      [] s = "analytics.*" -> <<"analytics", "*">>
      [] s = "analytics.metrics" -> <<"analytics", "metrics">>
      [] s = "alerts.*" -> <<"alerts", "*">>
      [] s = "alerts.notification" -> <<"alerts", "notification">>
      [] OTHER -> <<s>>

\* Event(type=..., timestamp=...), with a fresh id
NewEvent(id, type, ts) == [id |-> id, type |-> type, timestamp |-> ts]

\* ------------------------------------------------------------- TimeWindow
WindowNames == {"1min", "5min", "1hour"}

\* TimeWindow.__init__
TimeWindow(size) == [size_seconds |-> size, data |-> <<>>]

\* TimeWindow._cleanup_old_events: pop from the left while the head is older
\* than the cutoff
RECURSIVE PopOld(_, _)
PopOld(data, cutoff_time) ==
    IF data # <<>> /\ Head(data).timestamp < cutoff_time
    THEN PopOld(Tail(data), cutoff_time)
    ELSE data

cleanup_old_events(w, t) ==
    [w EXCEPT !.data = PopOld(w.data, t - w.size_seconds)]

\* TimeWindow.add_event: append, then clean up
add_event(w, event, t) ==
    cleanup_old_events([w EXCEPT !.data = Append(w.data, event)], t)

\* StreamProcessor.process_event, first loop: the event goes to every window
AddToAllWindows(ws, event, t) ==
    [n \in WindowNames |-> add_event(ws[n], event, t)]

\* AnalyticsService._setup_default_processing: the three default windows
DefaultWindows ==
    [n \in WindowNames |->
        TimeWindow(CASE n = "1min" -> Size1min
                     [] n = "5min" -> Size5min
                     [] n = "1hour" -> Size1hour)]

\* what an observation of window n at time t reports: count() the length of
\* the cleaned buffer, get_events() a copy of it
Observation(op, n, w, t) ==
    [op |-> op, window |-> n, at |-> t, size |-> w.size_seconds,
     events |-> w.data, count |-> Len(w.data)]

NoObservation ==
    [op |-> "none", window |-> "none", at |-> 0, size |-> 0,
     events |-> <<>>, count |-> 0]

\* ------------------------------------------------------------------ broker
QueueNames ==
    {"analytics.events", "storage.events", "alerting.analytics", "alerting.direct"}

\* A topic exchange matches the routing key against the binding pattern word
\* by word: * stands for exactly one word, # for zero or more.
RECURSIVE TopicMatch(_, _)
TopicMatch(pattern, key) ==
    IF pattern = <<>> THEN key = <<>>
    ELSE IF Head(pattern) = "#"
         THEN \/ TopicMatch(Tail(pattern), key)
              \/ key # <<>> /\ TopicMatch(pattern, Tail(key))
    ELSE IF key = <<>> THEN FALSE
    ELSE /\ Head(pattern) = "*" \/ Head(pattern) = Head(key)
         /\ TopicMatch(Tail(pattern), Tail(key))

\* MessageBroker.declare_queue: the binding it adds
Binding(queue_name, routing_key, exchange_name) ==
    [queue |-> queue_name, pattern |-> routing_key, exchange |-> exchange_name]

\* the queues an exchange routes a routing key to
RoutedQueues(bs, exchange_name, routing_key) ==
    {b.queue : b \in {c \in bs : /\ c.exchange = exchange_name
                                 /\ TopicMatch(Words(c.pattern), routing_key)}}

\* MessageBroker.publish: exchange.publish(message, routing_key)
Deliver(qs, bs, exchange_name, routing_key, msg) ==
    [q \in QueueNames |->
        IF q \in RoutedQueues(bs, exchange_name, routing_key)
        THEN Append(qs[q], msg) ELSE qs[q]]

\* EventPublisher.publish_event: routing_key = f"events.{event.type.value}"
EventRoutingKey(event) == <<"events">> \o Words(event.type)

Message(exchange_name, routing_key, payload) ==
    [exchange |-> exchange_name, routing_key |-> routing_key, payload |-> payload]

\* -------------------------------------------------------- StreamProcessor
HighErrorThreshold == 10      \* "... windows['1min'].count() > 10"
ActivitySpikeThreshold == 100 \* "... windows['5min'].count() > 100"

\* register_rule(name, condition, action). A condition of the shape
\* "event_type in <types> and windows[<window>].count() > <threshold>" is
\* kept as its three parts.
Rule(name, types, window, threshold, action) ==
    [name |-> name, types |-> types, window |-> window,
     threshold |-> threshold, action |-> action]

\* AnalyticsService._setup_default_processing: the two built-in rules
HighErrorRate ==
    Rule("high_error_rate", {"error"}, "1min", HighErrorThreshold,
         "_handle_high_error_rate")

ActivitySpike ==
    Rule("user_activity_spike", {"user.login", "user.logout"}, "5min",
         ActivitySpikeThreshold, "_handle_activity_spike")

DefaultRules == <<HighErrorRate, ActivitySpike>>

\* a rule a caller registers: "event_type == 'error' and
\* windows['1min'].count() > 0", which fires on every error event
ErrorSeen ==
    Rule("error_seen", {"error"}, "1min", 0, "_handle_high_error_rate")

\* StreamProcessor._evaluate_condition: eval of the condition; `and` does
\* not evaluate count() (which cleans the window) when the type test fails
EvalCondition(rule, event, ws, t) ==
    IF event.type \notin rule.types
    THEN [value |-> FALSE, windows |-> ws, counted |-> FALSE]
    ELSE LET w == cleanup_old_events(ws[rule.window], t) IN
         [value |-> Len(w.data) > rule.threshold,
          windows |-> [ws EXCEPT ![rule.window] = w], counted |-> TRUE]

\* the window a handler counts
HandlerWindow(action) ==
    IF action = "_handle_high_error_rate" THEN "1min" ELSE "5min"

\* _handle_high_error_rate / _handle_activity_spike: the alert_data dict
AlertData(action, event, n, t) ==
    IF action = "_handle_high_error_rate"
    THEN [alert_type |-> "high_error_rate",
          message |-> [text |-> "High error rate detected: errors in 1 minute",
                       count |-> n],
          severity |-> "critical", event_id |-> event.id, timestamp |-> t]
    ELSE [alert_type |-> "activity_spike",
          message |-> [text |-> "User activity spike detected: events in 5 minutes",
                       count |-> n],
          severity |-> "warning", event_id |-> event.id, timestamp |-> t]

\* StreamProcessor._generate_metrics: the metrics in the order it emits them
MetricNames ==
    <<"events_total", "events_by_severity", "event_processing_time",
      "window_1min_count", "window_5min_count", "window_1hour_count">>

\* the window a window_<name>_count gauge reads, "none" for the others
MetricWindow(k) ==
    CASE MetricNames[k] = "window_1min_count" -> "1min"
      [] MetricNames[k] = "window_5min_count" -> "5min"
      [] MetricNames[k] = "window_1hour_count" -> "1hour"
      [] OTHER -> "none"

\* StreamProcessor.process_event: the three blocks of its body, in order
ProcessEventStepsSwapped == <<"rules", "windows", "metrics">>
ProcessEventSteps == <<"windows", "rules", "metrics">>

StepOf(p) ==
    IF p.step > Len(ProcessEventSteps) THEN "done" ELSE ProcessEventSteps[p.step]

\* a process_event call that has just been entered
NewCall(event) ==
    [event |-> event, step |-> 1, rule |-> 1, awaiting |-> FALSE, metric |-> 1,
     appended |-> {}, evaluated |-> {}, raised |-> {}, results |-> <<>>,
     emitted |-> {}, sent |-> <<>>]

\* the for loop over self.rules moves to the next rule, and past the loop
\* after the last one
NextRule(p) ==
    IF p.rule >= Len(rules)
    THEN [p EXCEPT !.rule = Len(rules) + 1, !.awaiting = FALSE, !.step = @ + 1]
    ELSE [p EXCEPT !.rule = @ + 1, !.awaiting = FALSE]

\* ProcessingResult(event_id, status, ...)
ProcessingResult(p, status) == [event_id |-> p.event.id, status |-> status]

\* process_event, except Exception around one rule: a FAILED result is
\* appended and the loop goes on with the next rule
RuleFailedAborts(p) ==
    [p EXCEPT !.raised = @ \cup {p.rule},
              !.results = Append(@, ProcessingResult(p, "failed")),
              !.awaiting = FALSE,
              !.step = Len(ProcessEventSteps) + 1]
RuleFailed(p) ==
    NextRule([p EXCEPT !.raised = @ \cup {p.rule},
                       !.results = Append(@, ProcessingResult(p, "failed"))])

\* the action returned its record: a COMPLETED result is appended
RuleCompleted(p) ==
    NextRule([p EXCEPT !.results = Append(@, ProcessingResult(p, "completed"))])

\* ------------------------------------------------------------ AlertEngine
\* AlertLevel (shared/models.py)
AlertLevels == {"info", "warning", "error", "critical"}

\* AlertEngine._setup_notification_channels: the channels it can send on
ConfiguredChannels == {"email", "slack", "webhook"}

\* AlertRule(id, name, condition "value > threshold", level, channels, ...)
AlertRule(id, level, channels, suppression, escalation) ==
    [id |-> id, name |-> id, threshold |-> 0, level |-> level,
     channels |-> channels, enabled |-> TRUE,
     suppression_minutes |-> suppression, escalation_minutes |-> escalation]

\* self.rules, keyed by rule id
HasRule(rule_id) == \E r \in alert_rules : r.id = rule_id
RuleOf(rule_id) == CHOOSE r \in alert_rules : r.id = rule_id

\* Alert(rule_id, level, title, ...): id fresh, timestamp utcnow(), neither
\* acknowledged nor resolved. origin is 0, or for the clone _escalate_alert
\* makes, the id of the alert it was made from.
Alert(id, rule_id, level, title, t, origin) ==
    [id |-> id, rule_id |-> rule_id, level |-> level, title |-> title,
     timestamp |-> t, resolved |-> FALSE, resolved_at |-> -1,
     resolved_by |-> "none", acknowledged |-> FALSE, acknowledged_at |-> -1,
     acknowledged_by |-> "none", origin |-> origin]

\* the engine's tables, with the coroutine that is running on them
EngineState(task) ==
    [alerts |-> alerts, active_alerts |-> active_alerts,
     alert_states |-> alert_states, notifications |-> notifications,
     task |-> task]

\* self.active_alerts[alert.id] = alert; self.alert_states[alert.id] = ACTIVE
StoreAlertWithoutState(st, alert) ==
    [st EXCEPT !.alerts = Append(@, alert),
               !.active_alerts = @ \cup {alert.id},
               !.alert_states = Append(@, "absent")]
StoreAlert(st, alert) ==
    [st EXCEPT !.alerts = Append(@, alert),
               !.active_alerts = @ \cup {alert.id},
               !.alert_states = Append(@, "active")]

\* AlertEngine._evaluate_rule_condition: eval("value > <threshold>", data);
\* a payload without the name raises inside eval, which is caught: False
EvaluateRuleCondition(rule, data) ==
    "value" \in DOMAIN data /\ data.value > rule.threshold

\* AlertEngine._is_alert_suppressed
IsAlertSuppressedAnyRule(st, rule, t) ==
    /\ rule.suppression_minutes > 0
    /\ \E a \in st.active_alerts :
          /\ st.alerts[a].timestamp > t - rule.suppression_minutes
          /\ ~st.alerts[a].resolved
IsAlertSuppressed(st, rule, t) ==
    /\ rule.suppression_minutes > 0
    /\ \E a \in st.active_alerts :
          /\ st.alerts[a].rule_id = rule.id
          /\ st.alerts[a].timestamp > t - rule.suppression_minutes
          /\ ~st.alerts[a].resolved

\* _process_direct_alert: the payload parses when it has the four keys it
\* indexes and AlertLevel(level) is a member
DirectPayloadParses(data) ==
    /\ {"rule_id", "level", "title", "message"} \subseteq DOMAIN data
    /\ data.level \in AlertLevels

\* _alert_lifecycle_manager: the test an alert of the scan passes to be
\* escalated (the caller has checked that it is not resolved and has a rule)
EscalationDueIgnoringAck(alert, state, rule, current_time) ==
    /\ rule.escalation_minutes > 0
    /\ state # "escalated"
    /\ current_time >= alert.timestamp + rule.escalation_minutes
EscalationDue(alert, state, rule, current_time) ==
    /\ rule.escalation_minutes > 0
    /\ ~alert.acknowledged
    /\ state # "escalated"
    /\ current_time >= alert.timestamp + rule.escalation_minutes

\* _escalate_alert: self.alert_states[alert.id] = AlertState.ESCALATED
MarkEscalatedForgotten(states, a) == states
MarkEscalated(states, a) == [states EXCEPT ![a] = "escalated"]

\* _escalate_alert: the clone
EscalationAlert(id, alert, rule, t) ==
    Alert(id, rule.id, "critical", "ESCALATED: " \o alert.title, t, alert.id)

\* acknowledge_alert / resolve_alert act on an id of the active set only
InActiveSetOrNot(alert_id) == TRUE
InActiveSet(alert_id) == alert_id \in active_alerts

\* list(self.active_alerts.items()): the ids in insertion order
RECURSIVE ActiveList(_)
ActiveList(n) ==
    IF n = 0 THEN <<>>
    ELSE IF n \in active_alerts THEN Append(ActiveList(n - 1), n)
    ELSE ActiveList(n - 1)

\* list of the rule ids, in the order of self.rules.values()
RuleList ==
    LET ids == {r.id : r \in alert_rules} IN
    (IF "r1" \in ids THEN <<"r1">> ELSE <<>>) \o (IF "r2" \in ids THEN <<"r2">> ELSE <<>>)

\* the coroutines of the engine, each suspended at an await
NoTask ==
    [kind |-> "done", pc |-> "done", alert |-> 0, chans |-> <<>>, todo |-> <<>>,
     data |-> [value |-> 0], snapshot |-> <<>>, current_time |-> 0, wake |-> 0]

\* asyncio.create_task(self._alert_lifecycle_manager()): it runs when the
\* event loop next schedules it
ManagerTask == [NoTask EXCEPT !.kind = "manager", !.pc = "sleep"]

\* _send_notifications: the channels of the rule it awaits a send on, those
\* the engine has configured
SendList(channels) == SelectSeq(channels, LAMBDA c : c \in ConfiguredChannels)

\* _send_notifications suspended in the send on its first channel
Sending(task, alert_id, channels) ==
    [task EXCEPT !.pc = "send", !.alert = alert_id, !.chans = SendList(channels)]

\* what a channel's send came to for an alert
Notification(alert_id, channel, success) ==
    [alert |-> alert_id, channel |-> channel, success |-> success]

\* NotificationChannel.send: the email and slack channels sleep and return
\* True; the webhook channel raises on context.event (None in every
\* AlertContext the engine builds) before it sleeps, and returns False
SendAwaits(channel) == channel # "webhook"

\* _send_notifications after a send that returned False: the failure is
\* logged and the loop goes on with the channels that remain
AfterFailedSendAborts(channels) == <<>>
AfterFailedSend(channels) == Tail(channels)

\* _send_notifications: the loop over the channels up to the first send that
\* suspends. A channel that is not configured is passed over, a send that
\* fails at once is logged; after the last channel the coroutine runs on.
RECURSIVE StartSend(_, _, _)
StartSend(st, alert_id, channels) ==
    IF channels = <<>>
    THEN [st EXCEPT !.task = [@ EXCEPT !.pc = "run", !.alert = 0, !.chans = <<>>]]
    ELSE IF Head(channels) \notin ConfiguredChannels
    THEN StartSend(st, alert_id, Tail(channels))
    ELSE IF ~SendAwaits(Head(channels))
    THEN StartSend([st EXCEPT !.notifications =
                        @ \cup {Notification(alert_id, Head(channels), FALSE)}],
                   alert_id, AfterFailedSend(channels))
    ELSE [st EXCEPT !.task = Sending(@, alert_id, channels)]

\* _process_analytics_message: the loop over the rules from task.todo on, up
\* to its first await or its end. On a match _fire_alert drops a suppressed
\* alert, and else stores the alert and sends it.
RECURSIVE RunRules(_, _)
RunRules(st, t) ==
    IF st.task.todo = <<>> THEN [st EXCEPT !.task = NoTask]
    ELSE LET rule == RuleOf(Head(st.task.todo))
             rest == [st EXCEPT !.task.todo = Tail(@)]
             id == Len(st.alerts) + 1
         IN
         IF /\ rule.enabled
            /\ EvaluateRuleCondition(rule, st.task.data)
            /\ ~IsAlertSuppressed(st, rule, t)
         THEN LET fired == StoreAlert(rest, Alert(id, rule.id, rule.level,
                                                  "Alert: " \o rule.name, t, 0))
                  sent == StartSend(fired, id, rule.channels)
              IN
              IF sent.task.pc = "send" THEN sent ELSE RunRules(sent, t)
         ELSE RunRules(rest, t)

\* _alert_lifecycle_manager: the scan from task.snapshot on, up to its first
\* await: the send of an escalation (_escalate_alert marks the alert, makes
\* the clone and sends it), or the sleep after the last alert
RECURSIVE RunScan(_, _)
RunScan(st, t) ==
    IF st.task.snapshot = <<>>
    THEN [st EXCEPT !.task = [@ EXCEPT !.pc = "sleep", !.current_time = 0,
                                       !.wake = t + 1]]
    ELSE LET a == Head(st.task.snapshot)
             rest == [st EXCEPT !.task.snapshot = Tail(@)]
             id == Len(st.alerts) + 1
         IN
         IF /\ ~st.alerts[a].resolved
            /\ HasRule(st.alerts[a].rule_id)
            /\ EscalationDue(st.alerts[a], st.alert_states[a],
                             RuleOf(st.alerts[a].rule_id), st.task.current_time)
         THEN LET rule == RuleOf(st.alerts[a].rule_id)
                  escalated ==
                      [rest EXCEPT
                          !.alert_states = Append(MarkEscalated(@, a), "absent"),
                          !.alerts = Append(@, EscalationAlert(id, st.alerts[a], rule, t))]
                  sent == StartSend(escalated, id, rule.channels)
              IN
              IF sent.task.pc = "send" THEN sent ELSE RunScan(sent, t)
         ELSE RunScan(rest, t)

\* ============================================================ TimeWindow
\* The windows of a stream processor: events arrive, the clock advances, and
\* the windows are observed.
InitClock == now = 0 /\ nextId = 1

InitWindows == windows = DefaultWindows /\ observed = NoObservation

\* MessageBroker.__init__ and connect: the exchanges exist, no queue does
InitBroker ==
    /\ declared = {}
    /\ bindings = {}
    /\ queues = [q \in QueueNames |-> <<>>]
    /\ published = <<>>
    /\ is_connected = TRUE
    /\ deliveries = <<>>
    /\ dead_letters = [q \in QueueNames |-> <<>>]

\* cleanup_old_data has not been called
NoSweep == [pc |-> "idle", todo |-> <<>>, before |-> <<>>, deleted |-> {}]

\* no WebSocket client has connected
NoChannel == [pc |-> "closed", inbox |-> <<>>, log |-> <<>>]

\* the ingestion service has no background task and no channel; the alerts
\* table exists and is empty
InitServices ==
    /\ bg_tasks = <<>>
    /\ websocket = NoChannel
    /\ alert_rows = <<>>
    /\ analytics_is_running = FALSE
    /\ active_connections = [service \in {"main", "refactored"} |-> <<>>]

\* create_tables: the events table exists and is empty; nothing was asked yet
InitStorage ==
    /\ events_table = <<>>
    /\ accepted = {}
    /\ responses = <<>>
    /\ pages = <<>>
    /\ sweep = NoSweep
    /\ InitServices

\* StreamProcessor.__init__: no rule, no counter, nothing in progress
InitProcessor ==
    /\ rules = <<>>
    /\ metrics = [k \in {"events_processed"} \cup EventTypes |-> 0]
    /\ proc = <<>>

\* AlertEngine.__init__
InitEngine ==
    /\ alert_rules = {}
    /\ alerts = <<>>
    /\ active_alerts = {}
    /\ alert_states = <<>>
    /\ is_running = FALSE
    /\ tasks = <<>>
    /\ notifications = {}
    /\ handled = {}
    /\ calls = 0

InitWin == InitClock /\ InitWindows /\ InitBroker /\ InitStorage /\ InitProcessor /\ InitEngine

\* the clock advances
Tick ==
    /\ now < MaxTime
    /\ now' = now + 1
    /\ UNCHANGED <<nextId, winVars, brokerVars, procVars, alertVars, fabricVars, storageVars, serviceVars>>

\* an event stamped at ts (at its creation, not later than now) arrives
WinAddEvent ==
    /\ nextId <= MaxEvents
    /\ \E type \in {"error", "web.click"}, ts \in 0..now :
          windows' = AddToAllWindows(windows, NewEvent(nextId, type, ts), now)
    /\ nextId' = nextId + 1
    /\ UNCHANGED <<now, observed, brokerVars, procVars, alertVars, fabricVars, storageVars, serviceVars>>

\* TimeWindow.count
WinCount ==
    /\ \E n \in WindowNames :
          LET w == cleanup_old_events(windows[n], now) IN
          /\ windows' = [windows EXCEPT ![n] = w]
          /\ observed' = Observation("count", n, w, now)
    /\ UNCHANGED <<now, nextId, brokerVars, procVars, alertVars, fabricVars, storageVars, serviceVars>>

\* TimeWindow.get_events
WinGetEvents ==
    /\ \E n \in WindowNames :
          LET w == cleanup_old_events(windows[n], now) IN
          /\ windows' = [windows EXCEPT ![n] = w]
          /\ observed' = Observation("get_events", n, w, now)
    /\ UNCHANGED <<now, nextId, brokerVars, procVars, alertVars, fabricVars, storageVars, serviceVars>>

NextWin == Tick \/ WinAddEvent \/ WinCount \/ WinGetEvents

SpecWin == InitWin /\ [][NextWin]_vars

\* C2: whenever a window is observed (count or get_events) at time t, the
\* observed buffer holds only events with timestamp >= t - size, whatever
\* the order the events arrived in.
ObservedOnlyInWindow ==
    \A i \in 1..Len(observed.events) :
        observed.events[i].timestamp >= observed.at - observed.size

\* C3: an event with timestamp t is in no observation made at a time
\* tau >= t + size, tau = t + size included.
ObservedNoneExpired ==
    \A i \in 1..Len(observed.events) :
        ~(observed.at >= observed.events[i].timestamp + observed.size)

\* ======================================================== StreamProcessor
\* A stream processor with its rules registered; the consumer hands it
\* events, and the process_event calls of several events interleave at their
\* suspension points (the publishes). The clock stands still here: the order
\* of the steps of a call does not depend on it.
ProcEventTypes == {"error", "user.login"}

ProcRuleSets ==
    {<<ErrorSeen, HighErrorRate, ActivitySpike>>,
     <<HighErrorRate, ActivitySpike, ErrorSeen>>}

InitProc ==
    /\ InitClock /\ InitWindows /\ InitBroker /\ InitStorage /\ InitEngine
    /\ rules \in ProcRuleSets
    /\ metrics = [k \in {"events_processed"} \cup EventTypes |-> 0]
    /\ proc = <<>>

\* AnalyticsService._process_message: Event(**envelope.payload), then
\* process_event(event) is entered
ProcReceive ==
    /\ nextId <= MaxCalls
    /\ \E type \in ProcEventTypes :
          proc' = Append(proc, NewCall(NewEvent(nextId, type, now)))
    /\ nextId' = nextId + 1
    /\ UNCHANGED <<now, winVars, brokerVars, rules, metrics, alertVars, fabricVars, storageVars, serviceVars>>

\* process_event: the event is added to every window and counted
ProcWindows(e) ==
    /\ StepOf(proc[e]) = "windows"
    /\ windows' = AddToAllWindows(windows, proc[e].event, now)
    /\ metrics' = [metrics EXCEPT !["events_processed"] = @ + 1,
                                  ![proc[e].event.type] = @ + 1]
    /\ proc' = [proc EXCEPT ![e].appended = WindowNames, ![e].step = @ + 1]
    /\ UNCHANGED <<now, nextId, observed, brokerVars, rules, alertVars, fabricVars, storageVars, serviceVars>>

\* process_event: the condition of the next rule is evaluated; when it is
\* true the action is called, which counts its window, builds its alert and
\* suspends in publish_alert
ProcEvalRule(e) ==
    LET p == proc[e]
        rule == rules[p.rule]
        c == EvalCondition(rule, p.event, windows, now)
        hw == cleanup_old_events(c.windows[HandlerWindow(rule.action)], now)
    IN
    /\ StepOf(p) = "rules"
    /\ ~p.awaiting
    /\ IF c.value
       THEN /\ windows' = [c.windows EXCEPT ![HandlerWindow(rule.action)] = hw]
            /\ proc' = [proc EXCEPT ![e].evaluated = @ \cup {p.rule},
                                    ![e].awaiting = TRUE]
       ELSE /\ windows' = c.windows
            /\ proc' = [proc EXCEPT ![e] =
                          NextRule([p EXCEPT !.evaluated = @ \cup {p.rule}])]
    /\ UNCHANGED <<now, nextId, observed, brokerVars, rules, metrics, alertVars, fabricVars, storageVars, serviceVars>>

\* the action's publish_alert ends: the alert is on the alerts exchange and
\* the action returns its record, or the publish raised
ProcActionEnds(e) ==
    LET p == proc[e]
        rule == rules[p.rule]
        data == AlertData(rule.action, p.event,
                          Len(windows[HandlerWindow(rule.action)].data), now)
        key == Words("alerts.notification")
    IN
    /\ StepOf(p) = "rules"
    /\ p.awaiting
    /\ \/ /\ queues' = Deliver(queues, bindings, "alerts", key,
                               Message("alerts", key, data))
          /\ proc' = [proc EXCEPT ![e] =
                RuleCompleted([p EXCEPT !.sent = Append(@, "alerts.notification")])]
       \/ /\ queues' = queues
          /\ proc' = [proc EXCEPT ![e] = RuleFailed(p)]
    /\ UNCHANGED <<now, nextId, winVars, declared, bindings, published, rules,
                   metrics, alertVars, fabricVars, storageVars, serviceVars>>

\* _generate_metrics: the next metric is emitted; a window gauge counts its
\* window. A publish that fails is logged inside _emit_metric.
ProcEmitMetric(e) ==
    LET p == proc[e]
        n == MetricWindow(p.metric)
        key == Words("analytics.metrics")
    IN
    /\ StepOf(p) = "metrics"
    /\ windows' = IF n = "none" THEN windows
                  ELSE [windows EXCEPT ![n] = cleanup_old_events(@, now)]
    /\ \/ queues' = Deliver(queues, bindings, "analytics", key,
                            Message("analytics", key, MetricNames[p.metric]))
       \/ queues' = queues
    /\ proc' = [proc EXCEPT ![e].emitted = @ \cup {p.metric},
                            ![e].metric = @ + 1,
                            ![e].step = IF p.metric = Len(MetricNames)
                                        THEN @ + 1 ELSE @]
    /\ UNCHANGED <<now, nextId, observed, declared, bindings, published, rules,
                   metrics, alertVars, fabricVars, storageVars, serviceVars>>

NextProc ==
    \/ ProcReceive
    \/ \E e \in 1..Len(proc) : ProcWindows(e)
    \/ \E e \in 1..Len(proc) : ProcEvalRule(e)
    \/ \E e \in 1..Len(proc) : ProcActionEnds(e)
    \/ \E e \in 1..Len(proc) : ProcEmitMetric(e)

SpecProc == InitProc /\ [][NextProc]_vars

AllRules == 1..Len(rules)
AllMetrics == 1..Len(MetricNames)

\* C4: for every event, the event has been appended to all windows before
\* any rule is evaluated for it, and every rule has been evaluated for it
\* before any of its metrics is emitted, also while the calls for several
\* events interleave.
WindowsThenRulesThenMetrics ==
    \A e \in 1..Len(proc) :
        /\ proc[e].evaluated # {} => proc[e].appended = WindowNames
        /\ proc[e].emitted # {} =>
              /\ proc[e].evaluated = AllRules
              /\ ~proc[e].awaiting
              /\ proc[e].appended = WindowNames

\* two calls in progress at once, one of them past its rules
WindowsThenRulesThenMetricsWitness ==
    \E e, f \in 1..Len(proc) :
        /\ e # f
        /\ proc[e].emitted # {} /\ StepOf(proc[e]) = "metrics"
        /\ proc[f].awaiting

\* C5: when a rule's action raises for an event, the rules registered after
\* it are still evaluated for that event, its metrics are still emitted, the
\* failure is a FAILED result, and the other events are processed to the end.
RuleFailureDoesNotHalt ==
    \A e \in 1..Len(proc) :
        LET p == proc[e] IN
        /\ Len(SelectSeq(p.results, LAMBDA r : r.status = "failed"))
              = Cardinality(p.raised)
        /\ (p.raised # {} /\ ~p.awaiting) =>
              \/ StepOf(p) = "rules" /\ p.rule \notin p.raised
              \/ StepOf(p) = "metrics" /\ p.evaluated = AllRules
              \/ StepOf(p) = "done" /\ p.evaluated = AllRules
                                    /\ p.emitted = AllMetrics
        /\ (StepOf(p) = "done") => (p.evaluated = AllRules /\ p.emitted = AllMetrics)

\* an action raised for one event at a rule that is not the last, that event
\* and a later one are done
RuleFailureDoesNotHaltWitness ==
    \E e, f \in 1..Len(proc) :
        /\ e < f
        /\ proc[e].raised # {} /\ Len(rules) \notin proc[e].raised
        /\ StepOf(proc[e]) = "done" /\ StepOf(proc[f]) = "done"

\* ============================================================ AlertEngine
\* An alert engine with its rules registered (add_rule): it is started and
\* stopped, analytics and direct alert messages arrive, the lifecycle manager
\* scans, alerts are acknowledged and resolved, the clock advances.
AlertRuleSets ==
    {{AlertRule("r1", "warning", <<"sms", "email">>, 2, 1),
      AlertRule("r2", "error", <<>>, 0, 0)}}

\* payloads on analytics.*: a metric value
AnalyticsPayloads == {[value |-> 0], [value |-> 1]}

\* payloads on alerts.*: direct alert messages of the documented schema, for
\* a registered rule and for an unknown one
DirectPayloads ==
    {[rule_id |-> r, level |-> "warning", title |-> "disk", message |-> "full"] :
        r \in {"r1", "r9"}}

InitAlert ==
    /\ InitClock /\ InitWindows /\ InitBroker /\ InitStorage /\ InitProcessor
    /\ alert_rules \in AlertRuleSets
    /\ alerts = <<>>
    /\ active_alerts = {}
    /\ alert_states = <<>>
    /\ is_running = FALSE
    /\ tasks = <<>>
    /\ notifications = {}
    /\ handled = {}
    /\ calls = 0

\* a call that starts the engine, hands it a message or acts on an alert
Called == calls < MaxEngineCalls /\ calls' = calls + 1

\* a new coroutine takes a free slot; one that ended leaves nothing behind
Spawn(ts, task) ==
    IF task = NoTask THEN ts
    ELSE IF \E i \in 1..Len(ts) : ts[i] = NoTask
    THEN [ts EXCEPT ![CHOOSE i \in 1..Len(ts) :
                         ts[i] = NoTask /\ \A j \in 1..(i - 1) : ts[j] # NoTask] = task]
    ELSE Append(ts, task)

\* what a coroutine has done to the engine's tables
Commit(st) ==
    /\ alerts' = st.alerts
    /\ active_alerts' = st.active_alerts
    /\ alert_states' = st.alert_states
    /\ notifications' = st.notifications

\* AlertEngine.start, when the engine is not running (else it returns at
\* once). is_running is set before the queues are declared and the manager
\* task is created; a stop that falls in between leaves a manager that ends
\* at its first test of is_running, as a stop right after this step does.
EngineStart ==
    /\ Called
    /\ ~is_running
    /\ is_running' = TRUE
    /\ declared' = declared \cup {"alerting.analytics", "alerting.direct"}
    /\ bindings' = bindings \cup
          {Binding("alerting.analytics", "analytics.*", "analytics"),
           Binding("alerting.direct", "alerts.*", "alerts")}
    /\ tasks' = Spawn(tasks, ManagerTask)
    /\ UNCHANGED <<now, nextId, winVars, queues, published, procVars, alert_rules,
                   alerts, active_alerts, alert_states, notifications, handled, fabricVars, storageVars, serviceVars>>

\* AlertEngine.stop
EngineStop ==
    /\ is_running
    /\ is_running' = FALSE
    /\ UNCHANGED <<now, nextId, winVars, brokerVars, procVars, alert_rules, alerts,
                   active_alerts, alert_states, tasks, notifications, handled, calls, fabricVars, storageVars, serviceVars>>

\* _process_analytics_message(data)
ProcessAnalyticsMessage(data) ==
    LET st == RunRules(EngineState([NoTask EXCEPT !.kind = "analytics", !.pc = "rules",
                                                  !.todo = RuleList, !.data = data]),
                       now)
    IN Commit(st) /\ tasks' = Spawn(tasks, st.task)

AnalyticsArrives ==
    /\ Called
    /\ \E data \in AnalyticsPayloads : ProcessAnalyticsMessage(data)
    /\ UNCHANGED <<now, nextId, winVars, brokerVars, procVars, alert_rules,
                   is_running, handled, fabricVars, storageVars, serviceVars>>

\* _process_direct_alert(data): a payload that does not parse is logged and
\* dropped; else the alert is stored and, when its rule is registered, sent
\* on the channels of the rule
ProcessDirectAlert(data) ==
    LET id == Len(alerts) + 1
        direct == [NoTask EXCEPT !.kind = "direct"]
        stored == StoreAlert(EngineState(direct),
                             Alert(id, data.rule_id, data.level, data.title, now, 0))
        sent == IF HasRule(data.rule_id)
                THEN StartSend(stored, id, RuleOf(data.rule_id).channels)
                ELSE stored
    IN
    /\ handled' = handled \cup {data}
    /\ IF DirectPayloadParses(data)
       THEN /\ Commit(sent)
            /\ tasks' = IF sent.task.pc = "send" THEN Spawn(tasks, sent.task) ELSE tasks
       ELSE UNCHANGED <<alerts, active_alerts, alert_states, notifications, tasks>>

DirectArrives ==
    /\ Called
    /\ \E data \in DirectPayloads : ProcessDirectAlert(data)
    /\ UNCHANGED <<now, nextId, winVars, brokerVars, procVars, alert_rules,
                   is_running, fabricVars, storageVars, serviceVars>>

\* the send a coroutine is suspended in returns True; _send_notifications
\* goes on with the channels that remain, and after the last one the
\* coroutine runs on to its next await
SendStep(t) ==
    LET task == tasks[t]
        returned == [EngineState(task) EXCEPT !.notifications =
                        @ \cup {Notification(task.alert, Head(task.chans), TRUE)}]
        next == StartSend(returned, task.alert, Tail(task.chans))
        st == CASE next.task.pc = "send" -> next
                [] task.kind = "manager" -> RunScan(next, now)
                [] task.kind = "analytics" -> RunRules(next, now)
                [] OTHER -> [next EXCEPT !.task = NoTask]
    IN
    /\ task.pc = "send"
    /\ Commit(st)
    /\ tasks' = [tasks EXCEPT ![t] = st.task]
    /\ UNCHANGED <<now, nextId, winVars, brokerVars, procVars, alert_rules,
                   is_running, handled, calls, fabricVars, storageVars, serviceVars>>

\* _alert_lifecycle_manager: the sleep is over (or the task is first
\* scheduled); while self.is_running, a scan with current_time and a copy of
\* the active alerts, else the task ends
ManagerRun(t) ==
    LET task == tasks[t]
        st == IF is_running
              THEN RunScan(EngineState([task EXCEPT !.pc = "run", !.current_time = now,
                                                    !.snapshot = ActiveList(Len(alerts)),
                                                    !.wake = 0]), now)
              ELSE EngineState(NoTask)
    IN
    /\ task.kind = "manager" /\ task.pc = "sleep"
    /\ now >= task.wake
    /\ Commit(st)
    /\ tasks' = [tasks EXCEPT ![t] = st.task]
    /\ UNCHANGED <<now, nextId, winVars, brokerVars, procVars, alert_rules,
                   is_running, handled, calls, fabricVars, storageVars, serviceVars>>

\* AlertEngine.acknowledge_alert(alert_id, "admin")
AcknowledgeAlert(a) ==
    /\ Called
    /\ IF InActiveSet(a)
       THEN alerts' = [alerts EXCEPT ![a].acknowledged = TRUE,
                                     ![a].acknowledged_at = now,
                                     ![a].acknowledged_by = "admin"]
       ELSE alerts' = alerts
    /\ UNCHANGED <<now, nextId, winVars, brokerVars, procVars, alert_rules,
                   active_alerts, alert_states, is_running, tasks, notifications,
                   handled, fabricVars, storageVars, serviceVars>>

\* AlertEngine.resolve_alert(alert_id, "admin")
ResolveAlert(a) ==
    /\ Called
    /\ IF InActiveSet(a)
       THEN /\ alerts' = [alerts EXCEPT ![a].resolved = TRUE,
                                        ![a].resolved_at = now,
                                        ![a].resolved_by = "admin"]
            /\ active_alerts' = active_alerts \ {a}
            /\ alert_states' = [alert_states EXCEPT ![a] = "absent"]
       ELSE UNCHANGED <<alerts, active_alerts, alert_states>>
    /\ UNCHANGED <<now, nextId, winVars, brokerVars, procVars, alert_rules,
                   is_running, tasks, notifications, handled, fabricVars, storageVars, serviceVars>>

NextAlert ==
    \/ Tick
    \/ EngineStart
    \/ EngineStop
    \/ AnalyticsArrives
    \/ DirectArrives
    \/ \E t \in 1..Len(tasks) : SendStep(t)
    \/ \E t \in 1..Len(tasks) : ManagerRun(t)
    \/ \E a \in 1..Len(alerts) : AcknowledgeAlert(a)
    \/ \E a \in 1..Len(alerts) : ResolveAlert(a)

SpecAlert == InitAlert /\ [][NextAlert]_vars

\* the escalation alerts made from the alert a
EscalationsOf(a) == {b \in 1..Len(alerts) : alerts[b].origin = a}

\* the alerts of a rule that were fired (not made by an escalation), are
\* held by the engine and are not resolved
UnresolvedOf(rule_id) ==
    {a \in active_alerts : /\ alerts[a].rule_id = rule_id
                           /\ alerts[a].origin = 0
                           /\ ~alerts[a].resolved}

\* C7: for every rule with suppression_minutes = m > 0, no two unresolved
\* alerts of the rule were fired less than m minutes apart, whatever
\* analytics and direct alert messages have arrived.
SuppressionWindowHoldsOne ==
    \A r \in alert_rules :
        r.suppression_minutes > 0 =>
            \A a, b \in UnresolvedOf(r.id) :
                a < b => alerts[b].timestamp - alerts[a].timestamp >= r.suppression_minutes

\* C8: every alert has at most one escalation alert made from it, under
\* every interleaving of scans, sends, acknowledge, resolve, stop and start.
EscalatedAtMostOnce ==
    \A a \in 1..Len(alerts) : Cardinality(EscalationsOf(a)) <= 1

\* an alert was escalated a minute ago, is still held, and a lifecycle
\* manager has scanned it again since
EscalatedAtMostOnceWitness ==
    \E a \in active_alerts :
        /\ alert_states[a] = "escalated"
        /\ \E b \in EscalationsOf(a) : alerts[b].timestamp < now
        /\ \E t \in 1..Len(tasks) :
              /\ tasks[t].kind = "manager" /\ tasks[t].pc = "sleep"
              /\ tasks[t].wake > now

\* C9: a step that makes an escalation alert makes it from an alert that is
\* unresolved and unacknowledged, whose rule has escalation_minutes > 0, at
\* least that many minutes after the alert fired; it marks the alert
\* escalated, and the clone is critical, titled "ESCALATED: " and the
\* original title, and handed to the channels of the rule.
EscalatesOnlyWhenDue ==
    [][\A b \in (Len(alerts) + 1)..Len(alerts') :
          alerts'[b].origin # 0 =>
              LET a == alerts'[b].origin IN
              /\ a \in 1..Len(alerts)
              /\ ~alerts[a].resolved
              /\ ~alerts[a].acknowledged
              /\ HasRule(alerts[a].rule_id)
              /\ RuleOf(alerts[a].rule_id).escalation_minutes > 0
              /\ now >= alerts[a].timestamp + RuleOf(alerts[a].rule_id).escalation_minutes
              /\ alert_states'[a] = "escalated"
              /\ alerts'[b].level = "critical"
              /\ alerts'[b].title = "ESCALATED: " \o alerts[a].title
              /\ SendList(RuleOf(alerts[a].rule_id).channels) # <<>> =>
                    \E t \in 1..Len(tasks') :
                        tasks'[t].pc = "send" /\ tasks'[t].alert = b]_vars

\* an escalation has been made and is being sent; its original is marked
EscalatesOnlyWhenDueWitness ==
    \E b \in 1..Len(alerts) :
        /\ alerts[b].origin # 0
        /\ alerts[b].level = "critical"
        /\ alert_states[alerts[b].origin] = "escalated"
        /\ \E t \in 1..Len(tasks) : tasks[t].pc = "send" /\ tasks[t].alert = b

\* C10: a resolved alert is not in the active set and, when it was
\* acknowledged too, acknowledged_at <= resolved_at; and no step changes a
\* resolved alert, its state, or puts it back into the active set.
ResolvedIsTerminal ==
    /\ [](\A a \in 1..Len(alerts) :
             alerts[a].resolved =>
                 /\ a \notin active_alerts
                 /\ alerts[a].resolved_at # -1
                 /\ alerts[a].acknowledged_at # -1 =>
                        alerts[a].acknowledged_at <= alerts[a].resolved_at)
    /\ [][\A a \in 1..Len(alerts) :
             alerts[a].resolved =>
                 /\ alerts'[a] = alerts[a]
                 /\ alert_states'[a] = alert_states[a]
                 /\ a \notin active_alerts']_vars

\* an alert was acknowledged, then resolved, and time has gone on
ResolvedIsTerminalWitness ==
    \E a \in 1..Len(alerts) :
        /\ alerts[a].resolved
        /\ alerts[a].acknowledged
        /\ alerts[a].acknowledged_at < alerts[a].resolved_at
        /\ alerts[a].resolved_at < now

\* ========================================================= notifications
\* The alert engine with rules that list several channels: r1 sends on
\* email, webhook and slack, r2 on webhook and sms (which the engine has not
\* configured). The engine is started, messages arrive, the manager scans,
\* sends return and alerts are resolved.
NotifyRuleSets ==
    {{AlertRule("r1", "warning", <<"email", "webhook", "slack">>, 2, 1),
      AlertRule("r2", "error", <<"webhook", "sms">>, 0, 0)}}

InitNotify ==
    /\ InitClock /\ InitWindows /\ InitBroker /\ InitStorage /\ InitProcessor
    /\ alert_rules \in NotifyRuleSets
    /\ alerts = <<>>
    /\ active_alerts = {}
    /\ alert_states = <<>>
    /\ is_running = FALSE
    /\ tasks = <<>>
    /\ notifications = {}
    /\ handled = {}
    /\ calls = 0

NextNotify ==
    \/ Tick
    \/ EngineStart
    \/ AnalyticsArrives
    \/ DirectArrives
    \/ \E t \in 1..Len(tasks) : SendStep(t)
    \/ \E t \in 1..Len(tasks) : ManagerRun(t)
    \/ \E a \in 1..Len(alerts) : ResolveAlert(a)

SpecNotify == InitNotify /\ [][NextNotify]_vars

\* the alert a notification is about: the alert itself, or for an
\* escalation the alert that was escalated
Subject(als, alert_id) ==
    IF als[alert_id].origin = 0 THEN alert_id ELSE als[alert_id].origin

\* the coroutine in slot t enters a channel's send in this step
SendBegins(t) ==
    /\ tasks'[t].pc = "send"
    /\ \/ t > Len(tasks)
       \/ tasks[t].pc # "send"
       \/ tasks[t].alert # tasks'[t].alert
       \/ tasks[t].chans # tasks'[t].chans

\* C11: no step enters a channel's send for an alert, or for the escalation
\* of an alert, that resolve_alert had resolved before the step.
NoSendAfterResolve ==
    [][\A t \in 1..Len(tasks') :
          SendBegins(t) =>
              LET a == Subject(alerts', tasks'[t].alert) IN
              ~(a \in 1..Len(alerts) /\ alerts[a].resolved)]_vars

\* the channels a rule lists after channel c
RECURSIVE ChannelsAfter(_, _)
ChannelsAfter(channels, c) ==
    IF channels = <<>> THEN {}
    ELSE IF Head(channels) = c THEN {Tail(channels)[i] : i \in 1..(Len(channels) - 1)}
    ELSE ChannelsAfter(Tail(channels), c)

\* the channels of the sends the alert's delivery has still to come to
Pending(alert_id) ==
    UNION {{tasks[t].chans[i] : i \in 1..Len(tasks[t].chans)} :
              t \in {u \in 1..Len(tasks) : tasks[u].pc = "send" /\ tasks[u].alert = alert_id}}

\* C12: when a send for an alert has failed on a channel, every configured
\* channel the rule lists after it has been sent on for that alert, or is
\* still to come in the delivery that is under way.
SendFailureDoesNotBlock ==
    \A n \in notifications :
        ~n.success =>
            \A c \in ChannelsAfter(RuleOf(alerts[n.alert].rule_id).channels, n.channel)
                       \cap ConfiguredChannels :
                \/ \E m \in notifications : m.alert = n.alert /\ m.channel = c
                \/ c \in Pending(n.alert)

\* the webhook send for an alert failed and the channel after it was sent on
SendFailureDoesNotBlockWitness ==
    \E n, m \in notifications :
        /\ ~n.success /\ m.success
        /\ m.alert = n.alert
        /\ m.channel \in ChannelsAfter(RuleOf(alerts[n.alert].rule_id).channels, n.channel)
        /\ Pending(n.alert) = {}

\* ============================================================== pipeline
\* The analytics service with its built-in rules and the alert engine as it
\* is constructed, on one broker. The processor has taken HighErrorThreshold
\* error events in this minute; further error events arrive, one call of
\* process_event at a time, and the engine consumes its two queues.
RECURSIVE ErrorsTaken(_)
ErrorsTaken(n) ==
    IF n = 0 THEN DefaultWindows
    ELSE AddToAllWindows(ErrorsTaken(n - 1), NewEvent(0 - n, "error", 0), 0)

InitPipe ==
    /\ InitClock /\ InitBroker /\ InitStorage /\ InitEngine
    /\ windows = ErrorsTaken(HighErrorThreshold)
    /\ observed = NoObservation
    /\ rules = DefaultRules
    /\ metrics = [k \in {"events_processed"} \cup EventTypes |->
                     IF k \in {"events_processed", "error"} THEN HighErrorThreshold ELSE 0]
    /\ proc = <<>>

\* AnalyticsService._process_message for an error event, the call before it
\* having returned
PipeReceive ==
    /\ nextId <= MaxCalls
    /\ \A e \in 1..Len(proc) : StepOf(proc[e]) = "done"
    /\ proc' = Append(proc, NewCall(NewEvent(nextId, "error", now)))
    /\ nextId' = nextId + 1
    /\ UNCHANGED <<now, winVars, brokerVars, rules, metrics, alertVars, fabricVars, storageVars, serviceVars>>

\* the consumer of alerting.direct hands the next message to
\* _process_direct_alert
DirectConsume ==
    /\ queues["alerting.direct"] # <<>>
    /\ ProcessDirectAlert(Head(queues["alerting.direct"]).payload)
    /\ queues' = [queues EXCEPT !["alerting.direct"] = Tail(@)]
    /\ UNCHANGED <<now, nextId, winVars, declared, bindings, published, procVars,
                   alert_rules, is_running, calls, fabricVars, storageVars, serviceVars>>

\* the consumer of alerting.analytics hands the next message to
\* _process_analytics_message
AnalyticsConsume ==
    /\ queues["alerting.analytics"] # <<>>
    /\ ProcessAnalyticsMessage(Head(queues["alerting.analytics"]).payload)
    /\ queues' = [queues EXCEPT !["alerting.analytics"] = Tail(@)]
    /\ UNCHANGED <<now, nextId, winVars, declared, bindings, published, procVars,
                   alert_rules, is_running, handled, calls, fabricVars, storageVars, serviceVars>>

NextPipe ==
    \/ PipeReceive
    \/ \E e \in 1..Len(proc) : ProcWindows(e)
    \/ \E e \in 1..Len(proc) : ProcEvalRule(e)
    \/ \E e \in 1..Len(proc) : ProcActionEnds(e)
    \/ \E e \in 1..Len(proc) : ProcEmitMetric(e)
    \/ EngineStart
    \/ \E t \in 1..Len(tasks) : ManagerRun(t)
    \/ DirectConsume
    \/ AnalyticsConsume

SpecPipe == InitPipe /\ [][NextPipe]_vars

\* the alert messages of the high_error_rate rule that _process_direct_alert
\* has been handed
HighErrorRateHandled ==
    {d \in handled : "alert_type" \in DOMAIN d /\ d.alert_type = "high_error_rate"}

\* C6: once the direct-alert consumer has been handed the alert message the
\* high_error_rate rule published, the engine holds an alert of level
\* critical in its active set.
HighErrorRateAlertCreated ==
    HighErrorRateHandled # {} =>
        \E a \in active_alerts : alerts[a].level = "critical"

\* =============================================================== routing
\* The services declare their queues, the ingestion edge publishes events,
\* the consumers take them.
InitRoute == InitClock /\ InitWindows /\ InitBroker /\ InitStorage /\ InitProcessor /\ InitEngine

\* MessageBroker.declare_queue
DeclareQueue(queue_name, routing_key, exchange_name) ==
    /\ declared' = declared \cup {queue_name}
    /\ bindings' = bindings \cup {Binding(queue_name, routing_key, exchange_name)}

\* AnalyticsService.start: analytics.events <- events.*
AnalyticsDeclare ==
    /\ "analytics.events" \notin declared
    /\ DeclareQueue("analytics.events", "events.*", "events")
    /\ UNCHANGED <<now, nextId, winVars, queues, published, procVars, alertVars, fabricVars, storageVars, serviceVars>>

\* start_event_consumer (storage): storage.events <- events.#
StorageDeclare ==
    /\ "storage.events" \notin declared
    /\ DeclareQueue("storage.events", "events.#", "events")
    /\ UNCHANGED <<now, nextId, winVars, queues, published, procVars, alertVars, fabricVars, storageVars, serviceVars>>

\* ingestion publish_event -> EventPublisher.publish_event -> broker.publish
IngestPublish ==
    /\ Len(published) < MaxPublished
    /\ \E type \in EventTypes :
          LET event == NewEvent(nextId, type, now)
              key == EventRoutingKey(event)
              msg == Message("events", key, event)
          IN /\ queues' = Deliver(queues, bindings, "events", key, msg)
             /\ published' = Append(published,
                    [msg |-> msg, bound |-> declared,
                     routed |-> RoutedQueues(bindings, "events", key)])
    /\ nextId' = nextId + 1
    /\ UNCHANGED <<now, winVars, declared, bindings, procVars, alertVars, fabricVars, storageVars, serviceVars>>

\* a consumer takes the head of its queue
QueueTake ==
    /\ \E q \in declared :
          /\ queues[q] # <<>>
          /\ queues' = [queues EXCEPT ![q] = Tail(@)]
    /\ UNCHANGED <<now, nextId, winVars, declared, bindings, published, procVars, alertVars, fabricVars, storageVars, serviceVars>>

NextRoute == AnalyticsDeclare \/ StorageDeclare \/ IngestPublish \/ QueueTake

SpecRoute == InitRoute /\ [][NextRoute]_vars

EventQueues == {"analytics.events", "storage.events"}

\* C1: every event published on exchange events under events.<event_type>,
\* once both queues are bound, is delivered to analytics.events and to
\* storage.events, for every event type.
EventsReachBothQueues ==
    \A i \in 1..Len(published) :
        (published[i].msg.exchange = "events" /\ EventQueues \subseteq published[i].bound)
            => EventQueues \subseteq published[i].routed

\* ================================================================= fabric
\* One MessageBroker: it connects, the services declare their queues and
\* consume them, messages are published, and each message a queue holds is
\* handed to the handler consume registered, which settles it.

\* the declare_queue call of the service that owns a service queue
ServiceQueue(q) ==
    CASE q = "analytics.events" ->
            [routing_key |-> "events.*", exchange |-> "events", arguments |-> {}]
      [] q = "storage.events" ->
            [routing_key |-> "events.#", exchange |-> "events", arguments |-> {}]
      [] q = "alerting.analytics" ->
            [routing_key |-> "analytics.*", exchange |-> "analytics", arguments |-> {}]
      [] q = "alerting.direct" ->
            [routing_key |-> "alerts.*", exchange |-> "alerts", arguments |-> {}]

\* a queue dead-letters what it rejects when it was declared with the
\* arguments setup_dead_letter_queue gives a queue
DeadLettered(q) == "x-dead-letter-exchange" \in ServiceQueue(q).arguments

\* message_handler entered for a message: the callback is awaited
Delivery(q, msg) ==
    [queue |-> q, msg |-> msg, pc |-> "callback", outcome |-> "none",
     acks |-> 0, rejects |-> 0]

\* message_handler with auto_ack = False: message.ack() after the callback
\* returned, message.reject() in the except
SettlementAlwaysAck(outcome) == "ack"
Settlement(outcome) == IF outcome = "returned" THEN "ack" ELSE "reject"

Settle(d, outcome) ==
    [d EXCEPT !.pc = "done", !.outcome = outcome,
              !.acks = IF Settlement(outcome) = "ack" THEN @ + 1 ELSE @,
              !.rejects = IF Settlement(outcome) = "reject" THEN @ + 1 ELSE @]

\* the messages published: an event, and an alert
FabricMessages ==
    {Message("events", <<"events", "error">>, "event"),
     Message("alerts", <<"alerts", "notification">>, "alert")}

\* the services that are started: storage and alerting
FabricQueues == {"storage.events", "alerting.direct"}

InitFabric ==
    /\ InitClock /\ InitWindows /\ InitProcessor /\ InitEngine /\ InitStorage
    /\ declared = {}
    /\ bindings = {}
    /\ queues = [q \in QueueNames |-> <<>>]
    /\ published = <<>>
    /\ is_connected = FALSE
    /\ deliveries = <<>>
    /\ dead_letters = [q \in QueueNames |-> <<>>]

\* MessageBroker.connect, RabbitMQ being reachable
FabricConnect ==
    /\ ~is_connected
    /\ is_connected' = TRUE
    /\ UNCHANGED <<now, nextId, winVars, brokerVars, procVars, alertVars,
                   deliveries, dead_letters, storageVars, serviceVars>>

\* a service declares its queue and consumes it: declare_queue connects
\* first when the broker is not connected
FabricDeclare(q) ==
    /\ q \notin declared
    /\ DeclareQueue(q, ServiceQueue(q).routing_key, ServiceQueue(q).exchange)
    /\ is_connected' = TRUE
    /\ UNCHANGED <<now, nextId, winVars, queues, published, procVars, alertVars,
                   deliveries, dead_letters, storageVars, serviceVars>>

\* MessageBroker.publish: when the broker is not connected it calls
\* connect, which connects or raises; connected, it hands the message to the
\* exchange
FabricPublish ==
    /\ Len(published) < MaxPublished
    /\ \E msg \in FabricMessages, reachable \in BOOLEAN :
          IF is_connected \/ reachable
          THEN /\ is_connected' = TRUE
               /\ queues' = Deliver(queues, bindings, msg.exchange, msg.routing_key, msg)
               /\ published' = Append(published,
                      [msg |-> msg, connected |-> is_connected, raised |-> FALSE,
                       placed |-> TRUE,
                       routed |-> RoutedQueues(bindings, msg.exchange, msg.routing_key)])
          ELSE /\ published' = Append(published,
                      [msg |-> msg, connected |-> FALSE, raised |-> TRUE,
                       placed |-> FALSE, routed |-> {}])
               /\ UNCHANGED <<is_connected, queues>>
    /\ UNCHANGED <<now, nextId, winVars, declared, bindings, procVars, alertVars,
                   deliveries, dead_letters, storageVars, serviceVars>>

\* the broker hands the head of a consumed queue to message_handler
FabricDeliver(q) ==
    /\ q \in declared
    /\ queues[q] # <<>>
    /\ deliveries' = Append(deliveries, Delivery(q, Head(queues[q])))
    /\ queues' = [queues EXCEPT ![q] = Tail(@)]
    /\ UNCHANGED <<now, nextId, winVars, declared, bindings, published, procVars,
                   alertVars, is_connected, dead_letters, storageVars, serviceVars>>

\* the callback returns, or it raises: the message is settled. A rejected
\* message (requeue is False) goes to the dead-letter exchange of its queue
\* when the queue has one, and is dropped when it has none.
HandlerEnds(d, outcome) ==
    /\ deliveries[d].pc = "callback"
    /\ deliveries' = [deliveries EXCEPT ![d] = Settle(@, outcome)]
    /\ dead_letters' =
          IF Settlement(outcome) = "reject" /\ DeadLettered(deliveries[d].queue)
          THEN [dead_letters EXCEPT ![deliveries[d].queue] = Append(@, deliveries[d].msg)]
          ELSE dead_letters
    /\ UNCHANGED <<now, nextId, winVars, brokerVars, procVars, alertVars,
                   is_connected, storageVars, serviceVars>>

NextFabric ==
    \/ FabricConnect
    \/ \E q \in FabricQueues : FabricDeclare(q)
    \/ FabricPublish
    \/ \E q \in FabricQueues : FabricDeliver(q)
    \/ \E d \in 1..Len(deliveries) : HandlerEnds(d, "returned")
    \/ \E d \in 1..Len(deliveries) : HandlerEnds(d, "raised")

SpecFabric == InitFabric /\ [][NextFabric]_vars

RejectedIsDeadLettered ==
    \A d \in 1..Len(deliveries) :
        deliveries[d].rejects > 0 =>
            \E i \in 1..Len(dead_letters[deliveries[d].queue]) :
                dead_letters[deliveries[d].queue][i] = deliveries[d].msg

\* C15: every publish called while the broker was not connected raised and
\* handed no message to an exchange.
PublishNeedsConnection ==
    \A i \in 1..Len(published) :
        ~published[i].connected => published[i].raised /\ ~published[i].placed

\* ================================================================ storage
\* The ingestion edge accepts events and publishes them, the storage service
\* consumes storage.events into the events table, and its /api/v1/events
\* endpoint stores the events clients post.
MaxRequests == 2

\* "id UUID PRIMARY KEY": an INSERT of an id the table holds raises
UniqueViolationNever(table, event) == FALSE
UniqueViolation(table, event) == \E i \in 1..Len(table) : table[i].id = event.id

\* StorageService.store_event: the INSERT and the commit; any exception
\* (the database failing, the id being there) is logged and False returned
StoreEvent(table, event, db_ok) ==
    IF db_ok /\ ~UniqueViolation(table, event)
    THEN [table |-> Append(table, event), success |-> TRUE]
    ELSE [table |-> table, success |-> FALSE]

\* the endpoint: 200 when store_event returned True, HTTPException(500) if not
StoreResponse(event, existed, db_ok, success) ==
    [event |-> event, existed |-> existed, db_ok |-> db_ok, success |-> success,
     status |-> IF success THEN 200 ELSE 500]

\* the events clients post to the storage endpoint: they choose the id, and
\* may post an id again with the same or with another content
EndpointEvents ==
    {NewEvent(101, "error", 0), NewEvent(101, "metric", 0), NewEvent(102, "metric", 0)}

RowsOf(id) == {i \in 1..Len(events_table) : events_table[i].id = id}

InitStore ==
    /\ InitClock /\ InitWindows /\ InitBroker /\ InitProcessor /\ InitEngine
    /\ InitStorage

\* ingestion create_event: the event gets a fresh id and the caller is told
\* it was created; the background task publish_event publishes it, and logs
\* and drops whatever publishing raises
IngestCreateEvent ==
    /\ Len(published) < MaxPublished
    /\ \E type \in {"web.click"}, publish_ok \in BOOLEAN :
          LET event == NewEvent(nextId, type, now)
              key == EventRoutingKey(event)
              msg == Message("events", key, event)
          IN /\ accepted' = accepted \cup {event.id}
             /\ nextId' = nextId + 1
             /\ queues' = IF publish_ok
                          THEN Deliver(queues, bindings, "events", key, msg)
                          ELSE queues
             /\ published' = Append(published,
                    [msg |-> msg, raised |-> ~publish_ok,
                     routed |-> IF publish_ok
                                THEN RoutedQueues(bindings, "events", key)
                                ELSE {}])
    /\ UNCHANGED <<now, winVars, declared, bindings, procVars, alertVars,
                   fabricVars, events_table, responses, pages, sweep, serviceVars>>

\* the storage consumer: process_event stores the event of the message and
\* returns normally whether store_event returned True or False, so the
\* message is acknowledged
StorageConsume ==
    /\ "storage.events" \in declared
    /\ queues["storage.events"] # <<>>
    /\ \E db_ok \in BOOLEAN :
          events_table' =
              StoreEvent(events_table, Head(queues["storage.events"]).payload, db_ok).table
    /\ queues' = [queues EXCEPT !["storage.events"] = Tail(@)]
    /\ UNCHANGED <<now, nextId, winVars, declared, bindings, published, procVars,
                   alertVars, fabricVars, accepted, responses, pages, sweep, serviceVars>>

\* POST /api/v1/events
StoreEndpoint ==
    /\ Len(responses) < MaxRequests
    /\ \E event \in EndpointEvents, db_ok \in BOOLEAN :
          LET stored == StoreEvent(events_table, event, db_ok)
          IN /\ events_table' = stored.table
             /\ responses' = Append(responses,
                    StoreResponse(event, RowsOf(event.id) # {}, db_ok, stored.success))
    /\ UNCHANGED <<now, nextId, winVars, brokerVars, procVars, alertVars,
                   fabricVars, accepted, pages, sweep, serviceVars>>

NextStore ==
    \/ StorageDeclare
    \/ IngestCreateEvent
    \/ StorageConsume
    \/ StoreEndpoint

SpecStore == InitStore /\ [][NextStore]_vars

\* the storage queue exists and the consumer has taken all it held
Drained == "storage.events" \in declared /\ queues["storage.events"] = <<>>

\* C16: once the storage consumer has drained its queue, every event the
\* ingestion edge accepted has exactly one row in the events table.
AcceptedStoredOnce ==
    Drained => \A id \in accepted : Cardinality(RowsOf(id)) = 1

\* C17: no two rows of the events table have the same id, and no step
\* changes or removes a row the table holds: storing an id again leaves the
\* first row as it was.
OneRowPerId ==
    [][/\ \A i \in 1..Len(events_table) :
              i <= Len(events_table') /\ events_table'[i] = events_table[i]
       /\ \A i, j \in 1..Len(events_table') :
              events_table'[i].id = events_table'[j].id => i = j]_vars

\* an id was posted again with another content than its row has, and the
\* table holds the one row
OneRowPerIdWitness ==
    \E r \in 1..Len(responses) :
        /\ responses[r].existed
        /\ \E i \in RowsOf(responses[r].event.id) :
              events_table[i] # responses[r].event

\* C18: storing an event whose id is already stored, the database working,
\* reports success, with no error response.
DuplicateAcceptedSilently ==
    \A r \in 1..Len(responses) :
        responses[r].existed /\ responses[r].db_ok =>
            responses[r].success /\ responses[r].status = 200

\* ================================================================== query
\* StorageService.query_events over an events table that does not change.
MaxQueries == 2

\* an Optional field: None, or a value
None == <<>>
Some(v) == <<v>>

\* the columns of an events row that a StorageQuery can filter on
StoredEvent(id, type, source, user_id, ts, tags) ==
    [id |-> id, type |-> type, source |-> source, user_id |-> user_id,
     timestamp |-> ts, tags |-> tags]

StorageQuery(start_time, end_time, event_types, sources, user_ids, tags, limit, offset) ==
    [start_time |-> start_time, end_time |-> end_time, event_types |-> event_types,
     sources |-> sources, user_ids |-> user_ids, tags |-> tags,
     limit |-> limit, offset |-> offset]

\* "if query.start_time:", "if query.event_types:", ...
Supplied(v) == v # None

\* the WHERE clause query_events builds: start_time, end_time, event_types,
\* sources and user_ids, each when supplied; query.tags is not read
Selected(row, query) ==
    /\ Supplied(query.start_time) => row.timestamp >= query.start_time[1]
    /\ Supplied(query.end_time) => row.timestamp <= query.end_time[1]
    /\ Supplied(query.event_types) => row.type \in query.event_types[1]
    /\ Supplied(query.sources) => row.source \in query.sources[1]
    /\ Supplied(query.user_ids) => row.user_id \in query.user_ids[1]

\* "ORDER BY timestamp DESC": the orders the database may give the selected
\* rows in; rows of equal timestamp come in any order, and the order of one
\* statement says nothing about the order of the next
Orderings(table, query) ==
    LET sel == {i \in 1..Len(table) : Selected(table[i], query)}
        n == Cardinality(sel)
    IN {[k \in 1..n |-> table[f[k]]] :
           f \in {g \in [1..n -> sel] :
                     /\ \A j, k \in 1..n : g[j] = g[k] => j = k
                     /\ \A k \in 1..(n - 1) :
                            table[g[k]].timestamp >= table[g[k + 1]].timestamp}}

\* "LIMIT :limit OFFSET :offset"
Page(ordered, limit, offset) ==
    SubSeq(ordered, offset + 1,
           IF offset + limit < Len(ordered) THEN offset + limit ELSE Len(ordered))

\* the rows the table is made of: two of them have the same timestamp
QueryRows ==
    <<StoredEvent(1, "error", "web", "u1", 1, {"prod"}),
      StoredEvent(2, "error", "web", "u1", 1, {"test"}),
      StoredEvent(3, "metric", "api", "u2", 2, {})>>

RECURSIVE RowsAt(_, _)
RowsAt(ids, k) ==
    IF k > Len(QueryRows) THEN <<>>
    ELSE IF k \in ids THEN <<QueryRows[k]>> \o RowsAt(ids, k + 1)
    ELSE RowsAt(ids, k + 1)

\* the filters asked: none, a time range, event types, a source and a user,
\* a tag
QueryFilters ==
    {StorageQuery(None, None, None, None, None, None, 1, 0),
     StorageQuery(Some(1), Some(1), None, None, None, None, 1, 0),
     StorageQuery(None, None, Some({"error"}), None, None, None, 1, 0),
     StorageQuery(None, None, None, Some({"web"}), Some({"u1"}), None, 1, 0),
     StorageQuery(None, None, None, None, None, Some({"prod"}), 1, 0)}

\* each filter with a page size and the offset of one of its pages
Queries ==
    {[f EXCEPT !.limit = l, !.offset = l * p] :
        f \in QueryFilters, l \in {1, 2}, p \in {0, 1}}

InitQuery ==
    /\ InitClock /\ InitWindows /\ InitBroker /\ InitProcessor /\ InitEngine
    /\ events_table \in {RowsAt(ids, 1) : ids \in SUBSET (1..Len(QueryRows))}
    /\ accepted = {}
    /\ responses = <<>>
    /\ pages = <<>>
    /\ sweep = NoSweep
    /\ InitServices

\* POST /api/v1/events/query
QueryEvents ==
    /\ Len(pages) < MaxQueries
    /\ \E query \in Queries :
          \E ordered \in Orderings(events_table, query) :
              pages' = Append(pages,
                  [query |-> query,
                   events |-> Page(ordered, query.limit, query.offset)])
    /\ UNCHANGED <<now, nextId, winVars, brokerVars, procVars, alertVars,
                   fabricVars, events_table, accepted, responses, sweep, serviceVars>>

NextQuery == QueryEvents

SpecQuery == InitQuery /\ [][NextQuery]_vars

\* a row satisfies every predicate the query supplies, tags among them
Satisfies(row, query) ==
    /\ Selected(row, query)
    /\ Supplied(query.tags) => row.tags \cap query.tags[1] # {}

Matching(query) ==
    {i \in 1..Len(events_table) : Satisfies(events_table[i], query)}

\* the length of the page at offset of n rows taken limit at a time
PageLength(n, limit, offset) ==
    IF n <= offset THEN 0 ELSE IF n - offset < limit THEN n - offset ELSE limit

\* C19: every event query_events returns is a stored event that satisfies
\* all the predicates the query supplies, and the page has as many events as
\* limit and offset leave of the events that satisfy them.
QueryReturnsMatching ==
    \A p \in 1..Len(pages) :
        /\ \A k \in 1..Len(pages[p].events) :
              \E i \in Matching(pages[p].query) :
                  events_table[i] = pages[p].events[k]
        /\ Len(pages[p].events) =
              PageLength(Cardinality(Matching(pages[p].query)),
                         pages[p].query.limit, pages[p].query.offset)

SameWalk(q1, q2) ==
    /\ [q1 EXCEPT !.offset = 0] = [q2 EXCEPT !.offset = 0]
    /\ q1.offset < q2.offset

\* C20: two pages of one walk (the same filters and limit, different
\* offsets) have no event in common, and the events of the later page are
\* not newer than those of the earlier one.
PagesDoNotOverlap ==
    \A p, q \in 1..Len(pages) :
        SameWalk(pages[p].query, pages[q].query) =>
            \A j \in 1..Len(pages[p].events), k \in 1..Len(pages[q].events) :
                /\ pages[p].events[j].id # pages[q].events[k].id
                /\ pages[p].events[j].timestamp >= pages[q].events[k].timestamp

\* ============================================================== retention
\* StorageService.cleanup_old_data over the built-in policy table, with the
\* storage endpoint storing events meanwhile. Time is in days here.

\* _setup_default_policies: the dict, in insertion order
DefaultPolicies ==
    <<[event_type |-> "web.click", retention_days |-> 30],
      [event_type |-> "web.pageview", retention_days |-> 90],
      [event_type |-> "api.request", retention_days |-> 180],
      [event_type |-> "error", retention_days |-> 365],
      [event_type |-> "metric", retention_days |-> 365],
      [event_type |-> "default", retention_days |-> 90]>>

\* "DELETE FROM events WHERE type = :type AND timestamp < :cutoff"
Expired(row, policy, today) ==
    row.type = policy.event_type /\ row.timestamp < today - policy.retention_days

RECURSIVE DeleteExpired(_, _, _)
DeleteExpired(table, policy, today) ==
    IF table = <<>> THEN <<>>
    ELSE IF Expired(Head(table), policy, today)
    THEN DeleteExpired(Tail(table), policy, today)
    ELSE <<Head(table)>> \o DeleteExpired(Tail(table), policy, today)

\* "if event_type == 'default': continue"
RECURSIVE SkipDefault(_)
SkipDefault(todo) ==
    IF todo # <<>> /\ Head(todo).event_type = "default"
    THEN SkipDefault(Tail(todo)) ELSE todo

\* rows the table may hold when the sweep starts, by age in days
RetentionRows(today) ==
    <<NewEvent(1, "web.click", today - 50),
      NewEvent(2, "user.login", today - 200),
      NewEvent(3, "web.pageview", today - 10),
      NewEvent(4, "api.request", today - 181)>>

RECURSIVE RetentionTable(_, _, _)
RetentionTable(ids, k, today) ==
    IF k > Len(RetentionRows(today)) THEN <<>>
    ELSE IF k \in ids
    THEN <<RetentionRows(today)[k]>> \o RetentionTable(ids, k + 1, today)
    ELSE RetentionTable(ids, k + 1, today)

InitRetention ==
    /\ nextId = 1
    /\ now = 400
    /\ InitWindows /\ InitBroker /\ InitProcessor /\ InitEngine
    /\ events_table \in {RetentionTable(ids, 1, 400) : ids \in SUBSET (1..4)}
    /\ accepted = {}
    /\ responses = <<>>
    /\ pages = <<>>
    /\ sweep = NoSweep
    /\ InitServices

\* cleanup_old_data is called: the loop over retention_policies begins
CleanupStart ==
    /\ sweep.pc = "idle"
    /\ sweep' = [pc |-> "run", todo |-> SkipDefault(DefaultPolicies),
                 before |-> events_table, deleted |-> {}]
    /\ UNCHANGED <<now, nextId, winVars, brokerVars, procVars, alertVars,
                   fabricVars, events_table, accepted, responses, pages, serviceVars>>

\* one turn of the loop: the rows of the policy's type older than its cutoff
\* are counted and deleted
CleanupStep ==
    /\ sweep.pc = "run"
    /\ sweep.todo # <<>>
    /\ LET policy == Head(sweep.todo)
       IN /\ events_table' = DeleteExpired(events_table, policy, now)
          /\ sweep' = [sweep EXCEPT
                 !.todo = SkipDefault(Tail(@)),
                 !.deleted = @ \cup {events_table[i] : i \in
                     {j \in 1..Len(events_table) : Expired(events_table[j], policy, now)}}]
    /\ UNCHANGED <<now, nextId, winVars, brokerVars, procVars, alertVars,
                   fabricVars, accepted, responses, pages, serviceVars>>

\* the loop has ended: cleanup_stats is returned
CleanupReturn ==
    /\ sweep.pc = "run"
    /\ sweep.todo = <<>>
    /\ sweep' = [sweep EXCEPT !.pc = "done"]
    /\ UNCHANGED <<now, nextId, winVars, brokerVars, procVars, alertVars,
                   fabricVars, events_table, accepted, responses, pages, serviceVars>>

NextRetention ==
    \/ CleanupStart
    \/ CleanupStep
    \/ CleanupReturn
    \/ StoreEndpoint

SpecRetention == InitRetention /\ [][NextRetention]_vars

\* the retention_days that applies to a type: its policy's, or the default's
RetentionDays(type) ==
    LET own == {i \in 1..Len(DefaultPolicies) : DefaultPolicies[i].event_type = type}
        fallback == {i \in 1..Len(DefaultPolicies) :
                        DefaultPolicies[i].event_type = "default"}
    IN DefaultPolicies[CHOOSE i \in (IF own # {} THEN own ELSE fallback) : TRUE].retention_days

ExistedBefore(row) == \E i \in 1..Len(sweep.before) : sweep.before[i] = row

\* C21: when a sweep has completed, no row that was there when it started is
\* older than the retention_days of its type, the default's for a type
\* without a policy.
SweepLeavesNoneExpired ==
    sweep.pc = "done" =>
        \A i \in 1..Len(events_table) :
            ExistedBefore(events_table[i]) =>
                events_table[i].timestamp >= now - RetentionDays(events_table[i].type)

\* C22: a sweep deletes no event younger than the retention_days of the
\* default policy.
SweepKeepsYoungerThanDefault ==
    \A row \in sweep.deleted : now - row.timestamp >= RetentionDays("default")

\* ============================================================== ingestion
\* The ingestion edge: the service the command line starts
\* (streamflow/services/ingestion/main.py) and the refactored service
\* (services/ingestion/main_refactored.py), each taking single events and
\* batches and publishing them in background tasks.
MaxBatch == 100    \* BatchEventRequest: max_items=100

\* EventCreateRequest; correlation_id, session_id, data and tags are left out
EventCreateRequest(type, source, severity, user_id) ==
    [type |-> type, source |-> source, severity |-> severity, user_id |-> user_id]

\* DefaultEventValidator.validate
validate(event_request) ==
    /\ event_request.source # ""
    /\ ~(event_request.type = "error" /\ event_request.severity = "low")
    /\ ~(event_request.type = "user.login" /\ event_request.user_id = None)

\* the refactored EventCreateRequest: source has min_length=1; the started
\* service's EventCreateRequest takes any string
RefactoredParses(event_request) == event_request.source # ""

\* Event(type=..., source=..., severity=..., user_id=request.user_id or
\* user.get("user_id")), with a fresh id
IngestedEvent(id, event_request, t) ==
    [id |-> id, type |-> event_request.type, source |-> event_request.source,
     severity |-> event_request.severity,
     user_id |-> IF event_request.user_id # None THEN event_request.user_id[1]
                 ELSE "authenticated_user",
     timestamp |-> t]

\* the positions of the requests that are kept, in order
Kept(keep) ==
    LET IsKept(k) == keep[k]
    IN SelectSeq([k \in 1..Len(keep) |-> k], IsKept)

\* the events of the requests that are kept, with ids from first on
IngestedEvents(requests, keep, first, t) ==
    [j \in 1..Len(Kept(keep)) |->
        IngestedEvent(first + j - 1, requests[Kept(keep)[j]], t)]

IdsOf(events) == [k \in 1..Len(events) |-> events[k].id]

\* the log of a submission: what was sent, the status and the ids returned
Submission(service, path, requests, status, events) ==
    [service |-> service, path |-> path, requests |-> requests,
     status |-> status, ids |-> IdsOf(events)]

\* the events created, each with the request it was created for
Created(requests, keep, first) ==
    {[id |-> first + j - 1, request |-> requests[Kept(keep)[j]]] :
        j \in 1..Len(Kept(keep))}

BackgroundTask(service, events) == [service |-> service, events |-> events]

\* EventPublisher.publish_event for each event, the broker being up
EventMessage(event) == Message("events", EventRoutingKey(event), event)

PublishAll(log, events) ==
    log \o [k \in 1..Len(events) |->
              [msg |-> EventMessage(events[k]), raised |-> FALSE,
               routed |-> RoutedQueues(bindings, "events", EventRoutingKey(events[k]))]]

DeliverAll(qs, events) ==
    [q \in QueueNames |->
        LET Routed(msg) == q \in RoutedQueues(bindings, "events", msg.routing_key)
        IN qs[q] \o SelectSeq([k \in 1..Len(events) |-> EventMessage(events[k])], Routed)]

\* the requests clients send: a valid one, and one for each way of failing
\* validation
ValidRequest == EventCreateRequest("web.click", "app", "medium", Some("u1"))
Requests ==
    {ValidRequest,
     EventCreateRequest("error", "app", "low", None),
     EventCreateRequest("user.login", "app", "medium", None),
     EventCreateRequest("web.click", "", "medium", None)}

\* the batches clients send: valid and invalid items mixed
Batches ==
    {<<ValidRequest, EventCreateRequest("error", "app", "low", None)>>,
     <<EventCreateRequest("user.login", "app", "medium", None), ValidRequest>>,
     <<EventCreateRequest("web.click", "", "medium", None), ValidRequest>>,
     <<EventCreateRequest("error", "app", "low", None)>>}

\* POST /events of the started service: the event is created from the
\* request as it is, the publish is left to a background task
CreateEventOf(event_request) ==
    LET events == IngestedEvents(<<event_request>>, <<TRUE>>, nextId, now)
    IN /\ Len(responses) < MaxRequests
       /\ accepted' = accepted \cup Created(<<event_request>>, <<TRUE>>, nextId)
       /\ nextId' = nextId + 1
       /\ bg_tasks' = Append(bg_tasks, BackgroundTask("main", events))
       /\ responses' = Append(responses,
              Submission("main", "single", <<event_request>>, 200, events))
       /\ UNCHANGED <<now, winVars, brokerVars, procVars, alertVars, fabricVars,
                      events_table, pages, sweep, websocket, alert_rows,
                   analytics_is_running, active_connections>>

\* POST /events/batch of the started service: an event for every item
CreateEventsBatchOf(batch) ==
    LET keep == [k \in 1..Len(batch) |-> TRUE]
        events == IngestedEvents(batch, keep, nextId, now)
    IN /\ Len(responses) < MaxRequests
       /\ accepted' = accepted \cup Created(batch, keep, nextId)
       /\ nextId' = nextId + Len(batch)
       /\ bg_tasks' = Append(bg_tasks, BackgroundTask("main", events))
       /\ responses' = Append(responses,
              Submission("main", "batch", batch, 200, events))
       /\ UNCHANGED <<now, winVars, brokerVars, procVars, alertVars, fabricVars,
                      events_table, pages, sweep, websocket, alert_rows,
                   analytics_is_running, active_connections>>

\* POST /events of the refactored service: 422 when the request does not
\* parse, 400 when the validator refuses it
RefactoredCreateEventOf(event_request) ==
    LET ok == RefactoredParses(event_request) /\ validate(event_request)
        events == IngestedEvents(<<event_request>>, <<ok>>, nextId, now)
    IN /\ Len(responses) < MaxRequests
       /\ accepted' = accepted \cup Created(<<event_request>>, <<ok>>, nextId)
       /\ nextId' = nextId + Len(events)
       /\ bg_tasks' = IF ok THEN Append(bg_tasks, BackgroundTask("refactored", events))
                      ELSE bg_tasks
       /\ responses' = Append(responses,
              Submission("refactored", "single", <<event_request>>,
                         IF ~RefactoredParses(event_request) THEN 422
                         ELSE IF ~validate(event_request) THEN 400 ELSE 200,
                         events))
       /\ UNCHANGED <<now, winVars, brokerVars, procVars, alertVars, fabricVars,
                      events_table, pages, sweep, websocket, alert_rows,
                   analytics_is_running, active_connections>>

\* POST /events/batch of the refactored service: 422 when the batch or one of
\* its items does not parse; the items the validator refuses are skipped;
\* 400 when no item is left
RefactoredCreateEventsBatchOf(batch) ==
    LET parses == /\ Len(batch) >= 1 /\ Len(batch) <= MaxBatch
                  /\ \A k \in 1..Len(batch) : RefactoredParses(batch[k])
        keep == [k \in 1..Len(batch) |-> parses /\ validate(batch[k])]
        events == IngestedEvents(batch, keep, nextId, now)
    IN /\ Len(responses) < MaxRequests
       /\ accepted' = accepted \cup Created(batch, keep, nextId)
       /\ nextId' = nextId + Len(events)
       /\ bg_tasks' = IF events # <<>>
                      THEN Append(bg_tasks, BackgroundTask("refactored", events))
                      ELSE bg_tasks
       /\ responses' = Append(responses,
              Submission("refactored", "batch", batch,
                         IF ~parses THEN 422 ELSE IF events = <<>> THEN 400 ELSE 200,
                         events))
       /\ UNCHANGED <<now, winVars, brokerVars, procVars, alertVars, fabricVars,
                      events_table, pages, sweep, websocket, alert_rows,
                   analytics_is_running, active_connections>>

\* a background task of the started service runs: publish_event /
\* publish_events_batch publish the events, or the broker is down and what
\* the publish raises is logged and dropped
PublishEvents(i) ==
    /\ bg_tasks[i].service = "main"
    /\ \E publish_ok \in BOOLEAN :
          /\ published' = IF publish_ok THEN PublishAll(published, bg_tasks[i].events)
                          ELSE published
          /\ queues' = IF publish_ok THEN DeliverAll(queues, bg_tasks[i].events)
                       ELSE queues
    /\ bg_tasks' = SubSeq(bg_tasks, 1, i - 1) \o SubSeq(bg_tasks, i + 1, Len(bg_tasks))
    /\ UNCHANGED <<now, nextId, winVars, declared, bindings, procVars, alertVars,
                   fabricVars, storageVars, websocket, alert_rows,
                   analytics_is_running, active_connections>>

\* a background task of the refactored service runs:
\* RabbitMQEventPublisher.publish calls message_broker.publish_event, which
\* MessageBroker does not have; the AttributeError is caught and False
\* returned for every event
RefactoredPublishEvents(i) ==
    /\ bg_tasks[i].service = "refactored"
    /\ bg_tasks' = SubSeq(bg_tasks, 1, i - 1) \o SubSeq(bg_tasks, i + 1, Len(bg_tasks))
    /\ UNCHANGED <<now, nextId, winVars, brokerVars, procVars, alertVars,
                   fabricVars, storageVars, websocket, alert_rows,
                   analytics_is_running, active_connections>>

InitIngest ==
    /\ InitClock /\ InitWindows /\ InitBroker /\ InitProcessor /\ InitEngine
    /\ InitStorage

BackgroundRuns ==
    \/ \E i \in 1..Len(bg_tasks) : PublishEvents(i)
    \/ \E i \in 1..Len(bg_tasks) : RefactoredPublishEvents(i)

NextIngest ==
    \/ \E event_request \in Requests : CreateEventOf(event_request)
    \/ \E batch \in Batches : CreateEventsBatchOf(batch)
    \/ \E event_request \in Requests : RefactoredCreateEventOf(event_request)
    \/ \E batch \in Batches : RefactoredCreateEventsBatchOf(batch)
    \/ \E i \in 1..Len(bg_tasks) : PublishEvents(i)
    \/ \E i \in 1..Len(bg_tasks) : RefactoredPublishEvents(i)

SpecIngest == InitIngest /\ [][NextIngest]_vars

\* the ids of the events published
PublishedIds == {published[i].msg.payload.id : i \in 1..Len(published)}

\* C23: a single submission of an event that fails validation is answered
\* with a client error, and no event created for a request that fails
\* validation is published.
InvalidNeverPublished ==
    /\ \A r \in 1..Len(responses) :
          responses[r].path = "single" /\ ~validate(responses[r].requests[1]) =>
              responses[r].status \in 400..499
    /\ \A c \in accepted : c.id \in PublishedIds => validate(c.request)

\* the request the event with this id was created for
RequestOf(id) == (CHOOSE c \in accepted : c.id = id).request

\* C24: the ids the submission of a batch with valid and invalid items
\* returns are those of the events created for its valid items, one for
\* each, in the order the items were sent, and none for an invalid item.
BatchCreatesExactlyValid ==
    \A r \in 1..Len(responses) :
        /\ responses[r].path = "batch"
        /\ \E k \in 1..Len(responses[r].requests) : validate(responses[r].requests[k])
        /\ \E k \in 1..Len(responses[r].requests) : ~validate(responses[r].requests[k])
        =>  [k \in 1..Len(responses[r].ids) |-> RequestOf(responses[r].ids[k])]
                = SelectSeq(responses[r].requests, validate)

\* the background tasks are run once the response was sent
SpecIngestLive == InitIngest /\ [][NextIngest]_vars /\ WF_vars(BackgroundRuns)

\* the single submissions of the started service that returned this id
ReturnedSingle(id) ==
    \E r \in 1..Len(responses) :
        /\ responses[r].service = "main" /\ responses[r].path = "single"
        /\ responses[r].status = 200 /\ responses[r].ids = <<id>>

\* C26: every id a single submission has returned is the id of an event that
\* is eventually published.
ReturnedIdIsPublished ==
    \A id \in 1..(2 * MaxRequests) : ReturnedSingle(id) ~> (id \in PublishedIds)

\* ---------------------------------------------------------- batch sizes
\* a batch of n valid items
SizedBatch(n) == [k \in 1..n |-> ValidRequest]

\* the sizes at the limits of BatchEventRequest: none, max_items, one more
SizedBatches == {SizedBatch(0), SizedBatch(MaxBatch), SizedBatch(MaxBatch + 1)}

NextBatch ==
    \/ \E batch \in SizedBatches : CreateEventsBatchOf(batch)
    \/ \E batch \in SizedBatches : RefactoredCreateEventsBatchOf(batch)
    \/ \E i \in 1..Len(bg_tasks) : PublishEvents(i)
    \/ \E i \in 1..Len(bg_tasks) : RefactoredPublishEvents(i)

SpecBatch == InitIngest /\ [][NextBatch]_vars

\* C25: a batch of no event and a batch of more than 100 events are answered
\* with a client error and no event is created for them; a batch of 100
\* valid events is accepted with 100 ids.
BatchSizeLimits ==
    \A r \in 1..Len(responses) :
        responses[r].path = "batch" =>
            IF Len(responses[r].requests) \in 1..MaxBatch
            THEN responses[r].status = 200
                 /\ Len(responses[r].ids) = Len(responses[r].requests)
            ELSE responses[r].status \in 400..499 /\ responses[r].ids = <<>>

\* ------------------------------------------------------------- streaming
\* websocket_endpoint of the started service, for one channel: the client
\* sends frames, the endpoint's loop takes them one at a time.
MaxFrames == 3

\* what the client sends: an event frame, a ping, a frame of another type,
\* and text that WebSocketMessage.parse_raw refuses
FrameKinds == {"event", "ping", "subscribe", "malformed"}

\* the n-th frame of the channel; an event frame carries n as its data
Frame(kind, n) == [kind |-> kind, n |-> n]

\* where the loop goes with the frame it received: to publish_event for an
\* event, to the reply for a ping and (through the except) for text that
\* does not parse, and back to receive_text for any other type
AfterReceiveEventsOnly(kind) == IF kind = "event" THEN "publish" ELSE "receive"
AfterReceive(kind) ==
    CASE kind = "event" -> "publish"
      [] kind = "ping" -> "reply"
      [] kind = "malformed" -> "reply"
      [] OTHER -> "receive"

\* the text send_personal_message is given
ReplyText(kind) ==
    CASE kind = "event" -> "Event processed successfully"
      [] kind = "ping" -> "pong"
      [] OTHER -> "Error processing message"

\* Event(type=EventType.CUSTOM, source="websocket", data=message.data)
WebSocketEvent(id, data, t) ==
    [id |-> id, type |-> "custom", source |-> "websocket", data |-> data,
     timestamp |-> t]

\* manager.connect: the connection is accepted, the loop waits for a frame
StreamConnect ==
    /\ websocket.pc = "closed"
    /\ websocket' = [websocket EXCEPT !.pc = "receive"]
    /\ UNCHANGED <<now, nextId, winVars, brokerVars, procVars, alertVars,
                   fabricVars, storageVars, bg_tasks, alert_rows,
                   analytics_is_running, active_connections>>

\* the client sends its next frame
ClientSend ==
    /\ websocket.pc # "closed"
    /\ nextId <= MaxFrames
    /\ \E kind \in FrameKinds :
          websocket' = [websocket EXCEPT !.inbox = Append(@, Frame(kind, nextId))]
    /\ nextId' = nextId + 1
    /\ UNCHANGED <<now, winVars, brokerVars, procVars, alertVars,
                   fabricVars, storageVars, bg_tasks, alert_rows,
                   analytics_is_running, active_connections>>

\* receive_text returns the next frame and the message is parsed
StreamReceive ==
    /\ websocket.pc = "receive"
    /\ websocket.inbox # <<>>
    /\ websocket' = [websocket EXCEPT
           !.pc = AfterReceive(Head(websocket.inbox).kind),
           !.inbox = Tail(@),
           !.log = Append(@, [what |-> "received", frame |-> Head(websocket.inbox),
                              text |-> ""])]
    /\ UNCHANGED <<now, nextId, winVars, brokerVars, procVars, alertVars,
                   fabricVars, storageVars, bg_tasks, alert_rows,
                   analytics_is_running, active_connections>>

\* the frame in hand: the last one received
FrameInHand == websocket.log[Len(websocket.log)].frame

\* await publish_event(event): the event is published, or the broker is
\* down and the failure is logged and dropped
StreamPublish ==
    /\ websocket.pc = "publish"
    /\ \E publish_ok \in BOOLEAN :
          LET events == <<WebSocketEvent(FrameInHand.n, FrameInHand.n, now)>>
          IN /\ published' = IF publish_ok THEN PublishAll(published, events)
                             ELSE published
             /\ queues' = IF publish_ok THEN DeliverAll(queues, events) ELSE queues
    /\ websocket' = [websocket EXCEPT !.pc = "reply"]
    /\ UNCHANGED <<now, nextId, winVars, declared, bindings, procVars, alertVars,
                   fabricVars, storageVars, bg_tasks, alert_rows,
                   analytics_is_running, active_connections>>

\* send_personal_message: the reply goes out, the loop waits for a frame
StreamReply ==
    /\ websocket.pc = "reply"
    /\ websocket' = [websocket EXCEPT
           !.pc = "receive",
           !.log = Append(@, [what |-> "replied", frame |-> FrameInHand,
                              text |-> ReplyText(FrameInHand.kind)])]
    /\ UNCHANGED <<now, nextId, winVars, brokerVars, procVars, alertVars,
                   fabricVars, storageVars, bg_tasks, alert_rows,
                   analytics_is_running, active_connections>>

NextStream ==
    \/ StreamConnect
    \/ ClientSend
    \/ StreamReceive
    \/ StreamPublish
    \/ StreamReply

SpecStream == InitIngest /\ [][NextStream]_vars

\* the events of the channel are published in the order of their frames
PublishedInFrameOrder ==
    \A i, j \in 1..Len(published) :
        i < j => published[i].msg.payload.data < published[j].msg.payload.data

\* a ping that was replied to was replied to with pong
PingGetsPong ==
    \A p \in 1..Len(websocket.log) :
        websocket.log[p].what = "replied" /\ websocket.log[p].frame.kind = "ping"
            => websocket.log[p].text = "pong"

\* when a frame is received, every frame of these kinds received before it
\* has had its reply
RepliedBeforeNext(kinds) ==
    \A p, q \in 1..Len(websocket.log) :
        /\ p < q
        /\ websocket.log[p].what = "received" /\ websocket.log[q].what = "received"
        /\ websocket.log[p].frame.kind \in kinds
        => \E r \in (p + 1)..(q - 1) :
              /\ websocket.log[r].what = "replied"
              /\ websocket.log[r].frame = websocket.log[p].frame

\* C27: event frames are published in the order they were received, a ping
\* is answered with pong, and every frame, of whatever type, has its reply
\* before the next frame is received.
EveryFrameRepliedInOrder ==
    PublishedInFrameOrder /\ PingGetsPong /\ RepliedBeforeNext(FrameKinds)

\* C27, for the frames the channel is for: event frames are published in the
\* order they were received, a ping is answered with pong, and every event
\* and ping frame has its reply before the next frame is received.
EventAndPingRepliedInOrder ==
    PublishedInFrameOrder /\ PingGetsPong /\ RepliedBeforeNext({"event", "ping"})

\* two event frames were published and a ping between them was answered
EventAndPingRepliedInOrderWitness ==
    /\ Len(published) = 2
    /\ \E p \in 1..Len(websocket.log) :
          websocket.log[p].what = "replied" /\ websocket.log[p].text = "pong"
          /\ websocket.log[p].frame.n = 2

\* ------------------------------------------- derived records of rule actions
\* the routing keys under which the messages of one process_event call
\* went out
SentKeys(p) == {p.sent[i] : i \in DOMAIN p.sent}

\* the call appended at least one COMPLETED result, that is, an action
\* returned a record
ReturnedRecord(p) ==
    \E i \in DOMAIN p.results : p.results[i].status = "completed"

\* C30: whenever a rule action returned a derived record for an event, the
\* record has been published on the analytics exchange with the routing key
\* analytics.<action_name> of one of the registered actions by the time the
\* event's processing is finished.
DerivedRecordPublished ==
    \A e \in DOMAIN proc :
        (StepOf(proc[e]) = "done" /\ ReturnedRecord(proc[e]))
        => \E r \in DOMAIN rules :
              ("analytics." \o rules[r].action) \in SentKeys(proc[e])

\* ============================================================ rule registry
\* An alert engine whose rules are added and removed while analytics and
\* direct alert messages arrive. The rules a caller registers here have no
\* channel a send suspends on, so each message is handled in one step.
RegistrableRules ==
    {AlertRule("r1", "warning", <<"webhook">>, 0, 0),
     AlertRule("r1", "error", <<>>, 0, 0)}

InitRules ==
    /\ InitClock /\ InitWindows /\ InitBroker /\ InitStorage /\ InitProcessor
    /\ InitEngine

\* AlertEngine.add_rule(rule): self.rules[rule.id] = rule
AddRule(rule) ==
    /\ Called
    /\ alert_rules' = {r \in alert_rules : r.id # rule.id} \cup {rule}
    /\ UNCHANGED <<now, nextId, winVars, brokerVars, procVars, alerts, active_alerts,
                   alert_states, is_running, tasks, notifications, handled,
                   fabricVars, storageVars, serviceVars>>

\* AlertEngine.remove_rule(rule_id): the rule is deleted when it is there;
\* the alerts are left as they are
RemoveRule(rule_id) ==
    /\ Called
    /\ alert_rules' = {r \in alert_rules : r.id # rule_id}
    /\ UNCHANGED <<now, nextId, winVars, brokerVars, procVars, alerts, active_alerts,
                   alert_states, is_running, tasks, notifications, handled,
                   fabricVars, storageVars, serviceVars>>

NextRules ==
    \/ Tick
    \/ \E rule \in RegistrableRules : AddRule(rule)
    \/ \E rule \in RegistrableRules : RemoveRule(rule.id)
    \/ AnalyticsArrives
    \/ DirectArrives

SpecRules == InitRules /\ [][NextRules]_vars

\* C29: in every reachable state, every alert of the active set has a
\* rule_id of a rule that is in the engine's rule registry.
ActiveAlertsHaveRegisteredRule ==
    \A a \in active_alerts : HasRule(alerts[a].rule_id)

\* ============================================================ alerts store
\* The alerting service: its engine handles analytics and direct alert
\* messages while its HTTP endpoints read and update the alerts table.

\* AlertModel (shared/database.py): the columns create_tables gives the
\* alerts table
AlertColumns ==
    {"id", "rule_id", "level", "title", "message", "timestamp", "resolved",
     "resolved_at", "resolved_by", "acknowledged", "acknowledged_at",
     "acknowledged_by", "data", "alert_metadata"}

\* the columns the statement of each endpoint names
GetAlertsColumns ==
    {"id", "title", "message", "level", "status", "created_at", "updated_at",
     "rule_id", "event_id", "acknowledged_by", "resolved_by"}
AcknowledgeColumns == {"status", "updated_at", "acknowledged_by", "id"}
ResolveColumns == {"status", "updated_at", "resolved_by", "id"}

\* session.execute raises when the statement names a column the table does
\* not have
StatementRuns(columns) == columns \subseteq AlertColumns

\* get_alerts: hours=24 and limit=50 when the caller gives neither
DefaultHours == 24
DefaultLimit == 50

\* "WHERE created_at >= :start_time [AND status = :status]
\*  ORDER BY created_at DESC LIMIT :limit"
AlertsListed(table, status, start_time, limit) ==
    LET sel == SelectSeq(table, LAMBDA row :
                   /\ row.created_at >= start_time
                   /\ Supplied(status) => row.status = status[1])
        n == Len(sel)
        ordered == CHOOSE s \in [1..n -> 1..n] :
                      /\ \A j, k \in 1..n : s[j] = s[k] => j = k
                      /\ \A k \in 1..(n - 1) :
                            sel[s[k]].created_at >= sel[s[k + 1]].created_at
    IN [k \in 1..(IF n < limit THEN n ELSE limit) |-> sel[ordered[k]]]

\* the alerts the engine holds as active and not acknowledged
EngineActive == {a \in active_alerts : ~alerts[a].acknowledged}

\* GET /api/v1/alerts?status=...: the rows selected, or 500 when the
\* statement raises. The entry of the log also says which alerts the engine
\* held as active when the call was made.
GetAlerts(status) ==
    /\ Called
    /\ pages' = Append(pages,
          IF StatementRuns(GetAlertsColumns)
          THEN [status |-> status, code |-> 200, active |-> EngineActive,
                alerts |-> AlertsListed(alert_rows, status,
                                        now - 60 * DefaultHours, DefaultLimit)]
          ELSE [status |-> status, code |-> 500, active |-> EngineActive,
                alerts |-> <<>>])
    /\ UNCHANGED <<now, nextId, winVars, brokerVars, procVars, alert_rules, alerts,
                   active_alerts, alert_states, is_running, tasks, notifications,
                   handled, fabricVars, events_table, accepted, responses, sweep,
                   serviceVars>>

\* "UPDATE alerts SET status = :to ... WHERE id = :alert_id": 500 when the
\* statement raises, 404 when no row has the id, else the row is updated
UpdateAlertStatus(endpoint, columns, alert_id, to) ==
    LET hit == {i \in 1..Len(alert_rows) : alert_rows[i].id = alert_id}
        code == IF ~StatementRuns(columns) THEN 500
                ELSE IF hit = {} THEN 404 ELSE 200
    IN
    /\ Called
    /\ responses' = Append(responses,
          [endpoint |-> endpoint, alert_id |-> alert_id, status |-> code])
    /\ alert_rows' = IF code = 200
                     THEN [i \in 1..Len(alert_rows) |->
                              IF i \in hit
                              THEN [alert_rows[i] EXCEPT !.status = to]
                              ELSE alert_rows[i]]
                     ELSE alert_rows
    /\ UNCHANGED <<now, nextId, winVars, brokerVars, procVars, alert_rules, alerts,
                   active_alerts, alert_states, is_running, tasks, notifications,
                   handled, fabricVars, events_table, accepted, pages, sweep,
                   bg_tasks, websocket, analytics_is_running, active_connections>>

\* POST /api/v1/alerts/{alert_id}/acknowledge
AcknowledgeEndpoint(alert_id) ==
    UpdateAlertStatus("acknowledge", AcknowledgeColumns, alert_id, "acknowledged")

\* POST /api/v1/alerts/{alert_id}/resolve
ResolveEndpoint(alert_id) ==
    UpdateAlertStatus("resolve", ResolveColumns, alert_id, "resolved")

NextAlertStore ==
    \/ Tick
    \/ AnalyticsArrives
    \/ DirectArrives
    \/ \E t \in 1..Len(tasks) : SendStep(t)
    \/ \E status \in {None, Some("active")} : GetAlerts(status)
    \/ \E a \in 1..Len(alerts) : AcknowledgeEndpoint(a)
    \/ \E a \in 1..Len(alerts) : ResolveEndpoint(a)

SpecAlertStore == InitAlert /\ [][NextAlertStore]_vars

\* C28: every alert the engine holds as active has a row in the alerts
\* table, and every call of the alert list (unfiltered or for status active)
\* returned, with status active, each alert the engine held as active when
\* the call was made.
FiredAlertsAreListed ==
    /\ \A a \in EngineActive : \E i \in 1..Len(alert_rows) : alert_rows[i].id = a
    /\ \A p \in 1..Len(pages) :
          \A a \in pages[p].active :
              \E k \in 1..Len(pages[p].alerts) :
                  /\ pages[p].alerts[k].id = a
                  /\ pages[p].alerts[k].status = "active"

\* ------------------------------------------------- lifecycle manager tasks
\* the _alert_lifecycle_manager coroutines that have not ended
Managers == {t \in 1..Len(tasks) : tasks[t].kind = "manager"}

\* C38: after any sequence of start() and stop() calls, while the engine is
\* running at most one lifecycle manager task is alive (a task that is alive
\* while is_running holds goes on scanning at its next wake).
AtMostOneManager == is_running => Cardinality(Managers) <= 1

\* ======================================================= ConnectionManager
\* The connection managers of the two ingestion services, called with
\* connect and disconnect in any order.
MaxSocketCalls == 3

Sockets == {"s1", "s2"}
ManagerServices == {"main", "refactored"}

\* one call of a manager and whether it raised
ManagerCall(service, call, socket, raised) ==
    [service |-> service, call |-> call, socket |-> socket, raised |-> raised]

\* list.remove(x): the first occurrence is taken out
Remove(list, x) ==
    LET i == CHOOSE k \in 1..Len(list) :
                 list[k] = x /\ \A j \in 1..(k - 1) : list[j] # x
    IN SubSeq(list, 1, i - 1) \o SubSeq(list, i + 1, Len(list))

Holds(list, x) == \E k \in 1..Len(list) : list[k] = x

\* disconnect of the refactored manager, which tests membership first; the
\* started service's manager calls remove at once
DisconnectGuarded(service) == service = "refactored"

InitManagers ==
    /\ InitClock /\ InitWindows /\ InitBroker /\ InitStorage /\ InitProcessor
    /\ InitEngine

\* connect(websocket), with the socket of a new endpoint invocation:
\* await websocket.accept(); self.active_connections.append(websocket)
ManagerConnect(service, socket) ==
    /\ Len(responses) < MaxSocketCalls
    /\ ~Holds(active_connections[service], socket)
    /\ active_connections' =
          [active_connections EXCEPT ![service] = Append(@, socket)]
    /\ responses' = Append(responses, ManagerCall(service, "connect", socket, FALSE))
    /\ UNCHANGED <<now, nextId, winVars, brokerVars, procVars, alertVars, fabricVars,
                   events_table, accepted, pages, sweep, bg_tasks, websocket,
                   alert_rows, analytics_is_running>>

\* disconnect(websocket): self.active_connections.remove(websocket), which
\* raises ValueError when the socket is not in the list
ManagerDisconnect(service, socket) ==
    LET held == Holds(active_connections[service], socket)
        raised == ~held /\ ~DisconnectGuarded(service)
    IN
    /\ Len(responses) < MaxSocketCalls
    /\ active_connections' =
          IF held
          THEN [active_connections EXCEPT ![service] = Remove(@, socket)]
          ELSE active_connections
    /\ responses' = Append(responses, ManagerCall(service, "disconnect", socket, raised))
    /\ UNCHANGED <<now, nextId, winVars, brokerVars, procVars, alertVars, fabricVars,
                   events_table, accepted, pages, sweep, bg_tasks, websocket,
                   alert_rows, analytics_is_running>>

NextManagers ==
    \/ \E service \in ManagerServices, socket \in Sockets :
          ManagerConnect(service, socket)
    \/ \E service \in ManagerServices, socket \in Sockets :
          ManagerDisconnect(service, socket)

SpecManagers == InitManagers /\ [][NextManagers]_vars

\* the sockets a manager was called to connect and was not called to
\* disconnect since
ConnectedNow(service) ==
    {socket \in Sockets :
        \E c \in 1..Len(responses) :
            /\ responses[c] = ManagerCall(service, "connect", socket, FALSE)
            /\ \A d \in (c + 1)..Len(responses) :
                  ~(/\ responses[d].service = service
                    /\ responses[d].call = "disconnect"
                    /\ responses[d].socket = socket)}

\* C32: after any sequence of connect and disconnect calls, active_connections
\* of each manager holds exactly the sockets connected and not yet
\* disconnected, each once, and no disconnect call raised.
ConnectionsAreTheConnected ==
    /\ \A service \in ManagerServices :
          /\ {active_connections[service][k] :
                 k \in 1..Len(active_connections[service])} = ConnectedNow(service)
          /\ Len(active_connections[service]) = Cardinality(ConnectedNow(service))
    /\ \A c \in 1..Len(responses) : ~responses[c].raised

\* ================================================================== start
\* AlertEngine.start and AnalyticsService.start with a broker that may fail
\* at any of the steps of the setup, and stop.

\* where the setup raised: in get_message_broker (connect), in declare_queue,
\* in consume, or nowhere
StartOutcomes == {"connect", "declare", "consume", "started"}

\* one start() call of a service and how it ended; "returned" is the
\* immediate return of a service that already has is_running set
StartCall(service, outcome) == [service |-> service, outcome |-> outcome]

\* how far the setup got
Connected(outcome) == outcome # "connect"
QueuesDeclared(outcome) == outcome \in {"consume", "started"}

\* start(): is_running is set before the setup; an exception of the setup
\* leaves start() at once, with nothing that resets the flag
RunningAfterStart(outcome) == TRUE

\* AlertEngine.start. is_connected is the flag of the broker of the alerting
\* process: get_message_broker connects a broker that is not connected yet.
StartEngine(outcome) ==
    /\ Called
    /\ outcome = "connect" => ~is_connected
    /\ IF is_running
       THEN /\ responses' = Append(responses, StartCall("alerting", "returned"))
            /\ UNCHANGED <<is_running, is_connected, declared, bindings, tasks>>
       ELSE /\ responses' = Append(responses, StartCall("alerting", outcome))
            /\ is_running' = RunningAfterStart(outcome)
            /\ is_connected' = (is_connected \/ Connected(outcome))
            /\ declared' = IF QueuesDeclared(outcome)
                           THEN declared \cup {"alerting.analytics", "alerting.direct"}
                           ELSE declared
            /\ bindings' = IF QueuesDeclared(outcome)
                           THEN bindings \cup
                                {Binding("alerting.analytics", "analytics.*", "analytics"),
                                 Binding("alerting.direct", "alerts.*", "alerts")}
                           ELSE bindings
            /\ tasks' = IF outcome = "started" THEN Spawn(tasks, ManagerTask) ELSE tasks
    /\ UNCHANGED <<now, nextId, winVars, queues, published, procVars, alert_rules,
                   alerts, active_alerts, alert_states, notifications, handled,
                   deliveries, dead_letters, events_table, accepted, pages, sweep,
                   serviceVars>>

\* AnalyticsService.start, in the analytics process
StartAnalytics(outcome) ==
    /\ Called
    /\ IF analytics_is_running
       THEN /\ responses' = Append(responses, StartCall("analytics", "returned"))
            /\ UNCHANGED <<analytics_is_running, declared, bindings>>
       ELSE /\ responses' = Append(responses, StartCall("analytics", outcome))
            /\ analytics_is_running' = RunningAfterStart(outcome)
            /\ declared' = IF QueuesDeclared(outcome)
                           THEN declared \cup {"analytics.events"}
                           ELSE declared
            /\ bindings' = IF QueuesDeclared(outcome)
                           THEN bindings \cup
                                {Binding("analytics.events", "events.*", "events")}
                           ELSE bindings
    /\ UNCHANGED <<now, nextId, winVars, queues, published, procVars, alert_rules,
                   alerts, active_alerts, alert_states, is_running, tasks,
                   notifications, handled, fabricVars, events_table,
                   accepted, pages, sweep, bg_tasks, websocket, alert_rows,
                   active_connections>>

\* AnalyticsService.stop
AnalyticsStop ==
    /\ analytics_is_running
    /\ analytics_is_running' = FALSE
    /\ UNCHANGED <<now, nextId, winVars, brokerVars, procVars, alertVars, fabricVars,
                   storageVars, bg_tasks, websocket, alert_rows, active_connections>>

InitStart == InitFabric

NextStart ==
    \/ \E outcome \in StartOutcomes : StartEngine(outcome)
    \/ \E outcome \in StartOutcomes : StartAnalytics(outcome)
    \/ EngineStop
    \/ AnalyticsStop
    \/ \E t \in 1..Len(tasks) : ManagerRun(t)

SpecStart == InitStart /\ [][NextStart]_vars

Running(service) ==
    IF service = "alerting" THEN is_running ELSE analytics_is_running

\* C39: a service that has is_running set had the setup of its last start()
\* succeed, and a start() call returned at once as already running only
\* after a setup of that service that succeeded; so a start() that failed
\* does not leave is_running set, and the next start() retries.
FailedStartIsRetried ==
    \A service \in {"alerting", "analytics"} :
        LET ofService == SelectSeq(responses, LAMBDA c : c.service = service)
            setups == SelectSeq(ofService, LAMBDA c : c.outcome # "returned")
        IN
        /\ Running(service) =>
              setups # <<>> /\ setups[Len(setups)].outcome = "started"
        /\ \A i \in 1..Len(ofService) :
              ofService[i].outcome = "returned" =>
                  \E j \in 1..(i - 1) : ofService[j].outcome = "started"

\* ======================================================== lifecycle scans
\* The engine is started (with a broker that may fail during the setup) and
\* stopped, analytics messages fire alerts, alerts are acknowledged, the
\* clock advances, and the manager tasks and the sends are scheduled
\* fairly: a manager whose sleep is over runs, a send returns.
LifeRuleSets == {{AlertRule("r1", "warning", <<"email">>, 0, 1)}}

InitLife ==
    /\ InitClock /\ InitWindows /\ InitProcessor /\ InitStorage
    /\ declared = {}
    /\ bindings = {}
    /\ queues = [q \in QueueNames |-> <<>>]
    /\ published = <<>>
    /\ is_connected = FALSE
    /\ deliveries = <<>>
    /\ dead_letters = [q \in QueueNames |-> <<>>]
    /\ alert_rules \in LifeRuleSets
    /\ alerts = <<>>
    /\ active_alerts = {}
    /\ alert_states = <<>>
    /\ is_running = FALSE
    /\ tasks = <<>>
    /\ notifications = {}
    /\ handled = {}
    /\ calls = 0

\* _alert_lifecycle_manager at the horizon of the clock: the model's clock
\* stops at MaxTime, the sleep that began there still ends, and the scan
\* runs with current_time at the horizon
ManagerRunsLate(t) ==
    LET task == tasks[t]
        st == IF is_running
              THEN RunScan(EngineState([task EXCEPT !.pc = "run", !.current_time = now,
                                                    !.snapshot = ActiveList(Len(alerts)),
                                                    !.wake = 0]), now)
              ELSE EngineState(NoTask)
    IN
    /\ task.kind = "manager" /\ task.pc = "sleep"
    /\ now = MaxTime /\ task.wake > MaxTime
    /\ Commit(st)
    /\ tasks' = [tasks EXCEPT ![t] = st.task]
    /\ UNCHANGED <<now, nextId, winVars, brokerVars, procVars, alert_rules,
                   is_running, handled, calls, fabricVars, storageVars, serviceVars>>

Scheduled ==
    \/ \E t \in 1..Len(tasks) : ManagerRun(t)
    \/ \E t \in 1..Len(tasks) : ManagerRunsLate(t)
    \/ \E t \in 1..Len(tasks) : SendStep(t)

NextLife ==
    \/ Tick
    \/ \E outcome \in StartOutcomes : StartEngine(outcome)
    \/ EngineStop
    \/ AnalyticsArrives
    \/ \E a \in 1..Len(alerts) : AcknowledgeAlert(a)
    \/ \E t \in 1..Len(tasks) : ManagerRun(t)
    \/ \E t \in 1..Len(tasks) : ManagerRunsLate(t)
    \/ \E t \in 1..Len(tasks) : SendStep(t)

SpecLife ==
    InitLife /\ [][NextLife]_vars /\ WF_vars(Tick) /\ WF_vars(Scheduled)

\* the alert a is in the active set, neither acknowledged nor resolved, its
\* rule has an escalation interval and the interval has elapsed
AwaitsEscalation(a) ==
    /\ a <= Len(alerts)
    /\ a \in active_alerts
    /\ ~alerts[a].acknowledged /\ ~alerts[a].resolved
    /\ HasRule(alerts[a].rule_id)
    /\ RuleOf(alerts[a].rule_id).escalation_minutes > 0
    /\ now >= alerts[a].timestamp + RuleOf(alerts[a].rule_id).escalation_minutes

\* C31: while the engine is running, every alert that is in the active set,
\* unacknowledged and unresolved, under a rule with escalation_minutes > 0
\* whose interval has elapsed, is eventually escalated, unless it is
\* acknowledged or the engine is stopped first.
DueAlertIsEscalated ==
    \A a \in 1..MaxEngineCalls :
        (is_running /\ AwaitsEscalation(a))
            ~> (\/ ~is_running
                \/ ~AwaitsEscalation(a)
                \/ alert_states[a] = "escalated")

\* ============================================================= error rate
\* The processor with its built-in rules has taken HighErrorThreshold events
\* in this minute, all of them error events or none of them; further events
\* arrive and are processed.
RECURSIVE EventsTaken(_, _)
EventsTaken(n, type) ==
    IF n = 0 THEN DefaultWindows
    ELSE AddToAllWindows(EventsTaken(n - 1, type), NewEvent(0 - n, type, 0), 0)

InitRate ==
    /\ InitClock /\ InitBroker /\ InitStorage /\ InitEngine
    /\ \E type \in ProcEventTypes :
          /\ windows = EventsTaken(HighErrorThreshold, type)
          /\ metrics = [k \in {"events_processed"} \cup EventTypes |->
                           IF k \in {"events_processed", type}
                           THEN HighErrorThreshold ELSE 0]
    /\ observed = NoObservation
    /\ rules = DefaultRules
    /\ proc = <<>>

SpecRate == InitRate /\ [][NextProc]_vars

\* the error events among those of the 1min window that were received
\* within the last minute
ErrorsInLastMinute ==
    Cardinality({i \in 1..Len(windows["1min"].data) :
                    /\ windows["1min"].data[i].type = "error"
                    /\ windows["1min"].data[i].timestamp >= now - Size1min})

\* C33: every step in which the action of the high_error_rate rule publishes
\* its alert is taken with more than HighErrorThreshold error events
\* received within the last minute.
HighErrorRateCountsErrors ==
    [][\A e \in 1..Len(proc) :
          (/\ StepOf(proc[e]) = "rules"
           /\ proc[e].rule <= Len(rules)
           /\ rules[proc[e].rule].name = "high_error_rate"
           /\ Len(proc'[e].sent) > Len(proc[e].sent))
          => ErrorsInLastMinute > HighErrorThreshold]_vars

\* ========================================================= sweep report
\* cleanup_old_data statement by statement: for each policy the COUNT, then
\* the DELETE and the commit, with the storage endpoint storing events in
\* between and a database that may fail at a statement.

\* the rows of the table the statement of a policy matches
ExpiredRows(table, policy, today) ==
    {i \in 1..Len(table) : Expired(table[i], policy, today)}

\* cleanup_stats[event_type] = count, taken from the SELECT COUNT(*)
ReportedCount(counted, deleted) == counted

\* cleanup_old_data is called: cleanup_stats = {} and the loop begins
SweepStart ==
    /\ sweep.pc = "idle"
    /\ sweep' = [pc |-> "count", todo |-> SkipDefault(DefaultPolicies),
                 before |-> events_table, deleted |-> {}, count |-> 0,
                 cleanup_stats |-> {}, removed |-> {}, failed |-> {}]
    /\ UNCHANGED <<now, nextId, winVars, brokerVars, procVars, alertVars,
                   fabricVars, events_table, accepted, responses, pages, serviceVars>>

\* "SELECT COUNT(*) FROM events WHERE type = :type AND timestamp < :cutoff":
\* with no row counted the loop goes on with the next policy; a statement
\* that raises ends the call in its except clause
SweepCount ==
    /\ sweep.pc = "count"
    /\ sweep.todo # <<>>
    /\ \E db_ok \in BOOLEAN :
          LET policy == Head(sweep.todo)
              count == Cardinality(ExpiredRows(events_table, policy, now))
          IN sweep' =
                IF ~db_ok THEN [sweep EXCEPT !.pc = "done"]
                ELSE IF count > 0
                THEN [sweep EXCEPT !.pc = "delete", !.count = count]
                ELSE [sweep EXCEPT !.todo = SkipDefault(Tail(@))]
    /\ UNCHANGED <<now, nextId, winVars, brokerVars, procVars, alertVars,
                   fabricVars, events_table, accepted, responses, pages, serviceVars>>

\* "DELETE FROM events WHERE ...", session.commit() and
\* cleanup_stats[event_type] = count; when the DELETE or the commit raises,
\* get_session rolls back and the call ends in its except clause
SweepDelete ==
    /\ sweep.pc = "delete"
    /\ \E db_ok \in BOOLEAN :
          LET policy == Head(sweep.todo)
              hit == ExpiredRows(events_table, policy, now)
          IN IF db_ok
             THEN /\ events_table' = DeleteExpired(events_table, policy, now)
                  /\ sweep' = [sweep EXCEPT
                        !.pc = "count",
                        !.todo = SkipDefault(Tail(@)),
                        !.deleted = @ \cup {events_table[i] : i \in hit},
                        !.cleanup_stats = @ \cup
                            {[event_type |-> policy.event_type,
                              count |-> ReportedCount(sweep.count, Cardinality(hit))]},
                        !.removed = @ \cup
                            {[event_type |-> policy.event_type,
                              count |-> Cardinality(hit)]}]
             ELSE /\ events_table' = events_table
                  /\ sweep' = [sweep EXCEPT !.pc = "done",
                                            !.failed = @ \cup {policy.event_type}]
    /\ UNCHANGED <<now, nextId, winVars, brokerVars, procVars, alertVars,
                   fabricVars, accepted, responses, pages, serviceVars>>

\* the loop has ended: cleanup_stats is returned
SweepReturn ==
    /\ sweep.pc = "count"
    /\ sweep.todo = <<>>
    /\ sweep' = [sweep EXCEPT !.pc = "done"]
    /\ UNCHANGED <<now, nextId, winVars, brokerVars, procVars, alertVars,
                   fabricVars, events_table, accepted, responses, pages, serviceVars>>

NextSweep ==
    \/ SweepStart
    \/ SweepCount
    \/ SweepDelete
    \/ SweepReturn
    \/ StoreEndpoint

SpecSweep == InitRetention /\ [][NextSweep]_vars

\* C34: the count cleanup_old_data reports for a type is the number of rows
\* the sweep deleted for that type, and a type whose deletion failed is not
\* reported.
ReportedIsDeleted ==
    sweep.pc # "idle" =>
        /\ sweep.cleanup_stats = sweep.removed
        /\ \A s \in sweep.cleanup_stats : s.event_type \notin sweep.failed

\* ------------------------------------------------------------ alert states
\* the alert ids alert_states has an entry for
StatedAlerts == {a \in 1..Len(alert_states) : alert_states[a] # "absent"}

\* C35: in every reachable state alert_states and active_alerts hold the
\* same alert ids and every stored state is ACTIVE or ESCALATED, and no step
\* takes an alert whose state is ESCALATED back to ACTIVE.
StatesMatchActiveSet ==
    /\ [](/\ StatedAlerts = active_alerts
          /\ \A a \in StatedAlerts : alert_states[a] \in {"active", "escalated"})
    /\ [][\A a \in 1..Len(alert_states) :
              alert_states[a] = "escalated" => alert_states'[a] # "active"]_vars

\* an alert was escalated and is still in the active set, and another alert
\* was resolved and has left both tables
StatesMatchActiveSetWitness ==
    /\ \E a \in active_alerts : alert_states[a] = "escalated"
    /\ \E b \in 1..Len(alerts) :
          alerts[b].resolved /\ b \notin active_alerts /\ alert_states[b] = "absent"

\* ======================================================= storage consumer
\* The storage consumer on storage.events, message by message: the broker
\* hands message_handler a message, process_event parses and stores its
\* event, and message_handler settles the message.

\* Event(**event_data): the payload has the fields of an event
EventParses(payload) == {"id", "type", "timestamp"} \subseteq DOMAIN payload

\* a message on the events exchange whose payload is not an event
MalformedMessage == Message("events", <<"events", "custom">>, [id |-> 0])

\* process_event (storage): a payload that does not parse and a store_event
\* that returned False are logged inside its try/except, and it returns
ProcessEventOutcome(parses, success) == "returned"

\* some publisher puts a message that is not an event on the events exchange
MalformedPublish ==
    /\ Len(published) < MaxPublished
    /\ queues' = Deliver(queues, bindings, "events", MalformedMessage.routing_key,
                         MalformedMessage)
    /\ published' = Append(published,
          [msg |-> MalformedMessage, raised |-> FALSE,
           routed |-> RoutedQueues(bindings, "events", MalformedMessage.routing_key)])
    /\ UNCHANGED <<now, nextId, winVars, declared, bindings, procVars, alertVars,
                   fabricVars, storageVars, serviceVars>>

\* message_handler for a message of storage.events: the callback
\* process_event ends and the message is settled
StorageHandlerEnds(d) ==
    /\ deliveries[d].pc = "callback"
    /\ deliveries[d].queue = "storage.events"
    /\ \E db_ok \in BOOLEAN :
          LET payload == deliveries[d].msg.payload
              parses == EventParses(payload)
              stored == IF parses THEN StoreEvent(events_table, payload, db_ok)
                        ELSE [table |-> events_table, success |-> FALSE]
              outcome == ProcessEventOutcome(parses, stored.success)
          IN /\ events_table' = stored.table
             /\ deliveries' = [deliveries EXCEPT ![d] = Settle(@, outcome)]
             /\ dead_letters' =
                   IF Settlement(outcome) = "reject" /\ DeadLettered("storage.events")
                   THEN [dead_letters EXCEPT !["storage.events"] =
                            Append(@, deliveries[d].msg)]
                   ELSE dead_letters
    /\ UNCHANGED <<now, nextId, winVars, brokerVars, procVars, alertVars,
                   is_connected, accepted, responses, pages, sweep, serviceVars>>

NextConsume ==
    \/ StorageDeclare
    \/ IngestCreateEvent
    \/ MalformedPublish
    \/ FabricDeliver("storage.events")
    \/ \E d \in 1..Len(deliveries) : StorageHandlerEnds(d)

SpecConsume == InitStore /\ [][NextConsume]_vars

\* the event of the delivery's message is a row of the events table
Committed(d) ==
    \E i \in 1..Len(events_table) : events_table[i] = deliveries[d].msg.payload

\* C36: a message of storage.events that was acknowledged has its event
\* committed to the store, and a message whose event was not stored when its
\* handler ended was rejected.
AckedOnlyWhenCommitted ==
    \A d \in 1..Len(deliveries) :
        /\ deliveries[d].acks > 0 => Committed(d)
        /\ (deliveries[d].pc = "done" /\ ~Committed(d)) => deliveries[d].rejects = 1

\* ===================================================== acknowledge by admin
\* The running engine with a rule that escalates, and an administrator who
\* acknowledges alerts with POST /api/v1/alerts/{alert_id}/acknowledge.
NextAck ==
    \/ Tick
    \/ EngineStart
    \/ AnalyticsArrives
    \/ \E a \in 1..Len(alerts) : AcknowledgeEndpoint(a)
    \/ \E t \in 1..Len(tasks) : ManagerRun(t)
    \/ \E t \in 1..Len(tasks) : ManagerRunsLate(t)
    \/ \E t \in 1..Len(tasks) : SendStep(t)

SpecAck == InitLife /\ [][NextAck]_vars

\* the acknowledge endpoint was called for the alert
AcknowledgeRequested(a) ==
    \E r \in 1..Len(responses) :
        /\ responses[r].endpoint = "acknowledge"
        /\ responses[r].alert_id = a

\* C37: an alert for which the acknowledge endpoint was called is not
\* escalated by any later step of the lifecycle manager.
AcknowledgedNeverEscalated ==
    [][\A a \in 1..Len(alerts) :
          (AcknowledgeRequested(a) /\ alert_states[a] # "escalated")
              => alert_states'[a] # "escalated"]_vars

\* the event of the frame is among the messages published to the broker
FramePublished(frame) ==
    \E i \in 1..Len(published) :
        /\ published[i].msg.payload.source = "websocket"
        /\ published[i].msg.payload.data = frame.n

\* C40: on the streaming channel, an event frame is answered with "Event
\* <id> processed successfully" only if its event was published to the
\* broker; a frame whose publish failed is answered with an error.
SuccessReplyMeansPublished ==
    \A p \in 1..Len(websocket.log) :
        (websocket.log[p].what = "replied" /\ websocket.log[p].frame.kind = "event")
            => IF FramePublished(websocket.log[p].frame)
               THEN websocket.log[p].text = ReplyText("event")
               ELSE websocket.log[p].text = ReplyText("malformed")

====
